---- MODULE Spec2Model ----
(***************************************************************************)
(* Verification model of GenAI-Verity: the retrieval-confidence-gated      *)
(* compliance analysis pipeline (scoring, retrieval quality assessment,    *)
(* response parsing, prompt building, per-requirement agent).              *)
(*                                                                         *)
(* Text is modelled at character level: a string is a sequence of          *)
(* one-character strings, so that lower(), strip(), split() and the        *)
(* substring test `in` are computed as Python computes them.               *)
(***************************************************************************)
EXTENDS Integers, Sequences, FiniteSets, TLC

VARIABLES
    findings,     \* policy_analysis: the list of findings (their statuses)
    score,        \* policy_analysis: result of compute_compliance_score, or None
    auditPc,      \* analyze_policy: position of the audit run
    framework,    \* analyze_policy: the framework under audit
    requirements, \* analyze_policy: number of requirements of the framework
    agentCalls,   \* analyze_policy: number of agent.analyze invocations made
    invoked,      \* analyze_policy: the requirement (its position) of each invocation
    auditError,   \* analyze_policy: the exception that left analyze_policy, or None
    cancelRequested, \* caller: whether cancellation of the audit has been requested
    summary,      \* analyze_policy: the returned ComplianceSummary, or None
    docs,         \* assessor: the texts of the retrieved documents, in rank order
    scores,       \* assessor: the similarity scores (hundredths), possibly absent
    assessment,   \* assessor: the returned (confidence, notes, sufficient), or None
    text,         \* parser: the response text handed to the parser
    parsed,       \* parser: what the called parser method returned, or None
    context,      \* prompts: the PromptContext handed to the orchestrator
    built,        \* prompts: outcome of the called build method, or None
    rtIndex,      \* retriever: the ranked entries held by the vector index
    rtQuery,      \* retriever: the caller's query
    rtK,          \* retriever: the caller's k, or None when the caller leaves it out
    rtCalls,      \* retriever: the calls received by the vector index, with their outcome
    rtOutcome,    \* retriever: what the called function returned or raised, or None
    daPc,         \* document agent: position of the analysis
    daStrategy,   \* document agent: self.strategy
    daMethod,     \* document agent: the method called
    daDocument,   \* document agent: the document text under analysis
    daFramework,  \* document agent: the framework of the analysis
    daCalls,      \* document agent: the model calls made, with prompts and answer
    daText,       \* document agent: the content returned by the latest model call, or None
    daResult,     \* document agent: the returned AnalysisResult, or None
    daPrev,       \* document agent: final text and result of the earlier run, or None
    agPc,         \* agent: position of the per-requirement analysis
    agStrategy,   \* agent: the reasoning strategy the agent was constructed with
    agEvidence,   \* agent: the (document, score) pairs the retriever returned
    agAssessment, \* agent: the retrieval quality assessment, or None
    agReply,      \* agent: the latest text returned by the language model, or None
    modelCalls,   \* agent: number of language-model calls made for the requirement
    agFinding,    \* agent: the emitted ComplianceFinding, or None
    agTrace,      \* agent: the steps taken for the requirement, in order
    msPc,         \* multi-strategy agent: position of the call in progress
    msIndex,      \* multi-strategy agent: position of the loop in ReasoningStrategy
    msDocument,   \* multi-strategy agent: the document text of the analysis
    msFramework,  \* multi-strategy agent: the framework of the analysis
    msResults,    \* multi-strategy agent: the result map, entries in insertion order
    msCalls,      \* multi-strategy agent: the model calls made, with strategy and answer
    msBest,       \* multi-strategy agent: outcome of get_best_result, or None
    stInstance,   \* settings: Settings._instance, or None
    stCreated,    \* settings: number of Settings objects created
    stInitialized, \* settings: _initialized of the instance
    stGemini,     \* settings: the gemini attribute (the load that set it), or None
    stApp,        \* settings: the app attribute (the load that set it), or None
    stAttempts,   \* settings: number of times __init__ started loading
    stLoads,      \* settings: number of times __init__ finished loading
    stReturned    \* settings: the outcome of each call so far, in order

scoreVars == <<findings, score, auditPc, framework, requirements, agentCalls, summary,
               invoked, auditError, cancelRequested>>

assessVars == <<docs, scores, assessment>>

parserVars == <<text, parsed>>

promptVars == <<context, built>>

agentVars == <<agPc, agStrategy, agEvidence, agAssessment, agReply, modelCalls, agFinding,
               agTrace>>

retrieverVars == <<rtIndex, rtQuery, rtK, rtCalls, rtOutcome>>

docAgentVars == <<daPc, daStrategy, daMethod, daDocument, daFramework, daCalls, daText,
                  daResult, daPrev>>

multiVars == <<msPc, msIndex, msDocument, msFramework, msResults, msCalls, msBest>>

settingsVars == <<stInstance, stCreated, stInitialized, stGemini, stApp, stAttempts,
                  stLoads, stReturned>>

vars == <<scoreVars, assessVars, parserVars, promptVars, agentVars, retrieverVars,
          docAgentVars, multiVars, settingsVars>>

\* what the actions of one component leave unchanged
notScoreVars == <<assessVars, parserVars, promptVars, agentVars, retrieverVars,
                   docAgentVars, multiVars, settingsVars>>

notAssessVars == <<scoreVars, parserVars, promptVars, agentVars, retrieverVars,
                   docAgentVars, multiVars, settingsVars>>

notParserVars == <<scoreVars, assessVars, promptVars, agentVars, retrieverVars,
                   docAgentVars, multiVars, settingsVars>>

notPromptVars == <<scoreVars, assessVars, parserVars, agentVars, retrieverVars,
                   docAgentVars, multiVars, settingsVars>>

notAgentVars == <<scoreVars, assessVars, parserVars, promptVars, retrieverVars,
                   docAgentVars, multiVars, settingsVars>>

notRetrieverVars == <<scoreVars, assessVars, parserVars, promptVars, agentVars,
                      docAgentVars, multiVars, settingsVars>>

notDocAgentVars == <<scoreVars, assessVars, parserVars, promptVars, agentVars,
                     retrieverVars, multiVars, settingsVars>>

notMultiVars == <<scoreVars, assessVars, parserVars, promptVars, agentVars,
                  retrieverVars, docAgentVars, settingsVars>>

notSettingsVars == <<scoreVars, assessVars, parserVars, promptVars, agentVars,
                     retrieverVars, docAgentVars, multiVars>>

\* Optional[T]: None is the empty tuple, a present value x is <<x>>
None == <<>>

Some(x) == <<x>>

\* the value held by a present optional
The(o) == o[1]

\* an enumeration-valued variable of a component that is not running
Unset == "unset"

(***************************************************************************)
(* A component that takes no part in a run stays in its idle state.        *)
(***************************************************************************)
AuditIdle ==
    /\ auditPc = "idle"
    /\ framework = Unset
    /\ requirements = 0
    /\ agentCalls = 0
    /\ summary = None
    /\ invoked = <<>>
    /\ auditError = None
    /\ cancelRequested = FALSE

ScoreIdle ==
    /\ findings = <<>>
    /\ score = None
    /\ AuditIdle

AssessIdle ==
    /\ docs = <<>>
    /\ scores = <<>>
    /\ assessment = None

ParserIdle ==
    /\ text = <<>>
    /\ parsed = None

PromptIdle ==
    /\ context = None
    /\ built = None

AgentIdle ==
    /\ agPc = "idle"
    /\ agStrategy = Unset
    /\ agEvidence = <<>>
    /\ agAssessment = None
    /\ agReply = None
    /\ modelCalls = 0
    /\ agFinding = None
    /\ agTrace = <<>>

RetrieverIdle ==
    /\ rtIndex = <<>>
    /\ rtQuery = Unset
    /\ rtK = None
    /\ rtCalls = <<>>
    /\ rtOutcome = None

DocAgentIdle ==
    /\ daPc = "idle"
    /\ daStrategy = Unset
    /\ daMethod = Unset
    /\ daDocument = <<>>
    /\ daFramework = Unset
    /\ daCalls = <<>>
    /\ daText = None
    /\ daResult = None
    /\ daPrev = None

MultiIdle ==
    /\ msPc = "idle"
    /\ msIndex = 0
    /\ msDocument = <<>>
    /\ msFramework = Unset
    /\ msResults = <<>>
    /\ msCalls = <<>>
    /\ msBest = None

SettingsIdle ==
    /\ stInstance = None
    /\ stCreated = 0
    /\ stInitialized = FALSE
    /\ stGemini = None
    /\ stApp = None
    /\ stAttempts = 0
    /\ stLoads = 0
    /\ stReturned = <<>>

\* every component but the named one is idle
IdleExcept(component) ==
    /\ IF component = "multi" THEN TRUE ELSE MultiIdle
    /\ IF component = "settings" THEN TRUE ELSE SettingsIdle
    /\ IF component = "docagent" THEN TRUE ELSE DocAgentIdle
    /\ IF component = "retriever" THEN TRUE ELSE RetrieverIdle
    /\ IF component = "score" THEN TRUE ELSE ScoreIdle
    /\ IF component = "assess" THEN TRUE ELSE AssessIdle
    /\ IF component = "parser" THEN TRUE ELSE ParserIdle
    /\ IF component = "prompt" THEN TRUE ELSE PromptIdle
    /\ IF component = "agent" THEN TRUE ELSE AgentIdle

(***************************************************************************)
(* Bounds of the model.                                                    *)
(***************************************************************************)
MaxFindings == 6

MaxDocs == 3

MaxStatusTokens == 3

MaxSectionTokens == 3

MaxScoreTokens == 4

MaxNumberTokens == 2

MaxPreviousLen == 2

MaxK == 3

(***************************************************************************)
(* Enumerations.                                                           *)
(***************************************************************************)
\* ComplianceStatus of the per-requirement agent (names read by f.status.name)
ComplianceStatus == {"COMPLIANT", "PARTIAL", "NON_COMPLIANT", "INSUFFICIENT_EVIDENCE"}

\* prompts.Framework
Framework == {"ISO27001", "GDPR", "SOC2", "HIPAA"}

(***************************************************************************)
(* Generic helpers.                                                        *)
(***************************************************************************)
Max(a, b) == IF a >= b THEN a ELSE b

Min(a, b) == IF a <= b THEN a ELSE b

\* all sequences over S of length at most n
SeqUpTo(S, n) == UNION {[1..k -> S] : k \in 0..n}

\* mutant: the last finding is left out of the count
CountOfAllButLast(s, v) == Cardinality({i \in 1..(Len(s) - 1) : s[i] = v})

\* number of positions of seq s holding value v
CountOf(s, v) == Cardinality({i \in 1..Len(s) : s[i] = v})

(***************************************************************************)
(* policy_analysis.compute_compliance_score                                *)
(***************************************************************************)
ScoreStart == 100

NonCompliantPenalty == 20

PartialPenalty == 10

\* mutant: a NON_COMPLIANT finding costs a fifth of the running score
ScoreStepProportional(acc, status) ==
    IF status = "NON_COMPLIANT" THEN acc - (acc \div 5)
    ELSE IF status = "PARTIAL" THEN acc - PartialPenalty
    ELSE acc

\* the loop body: one finding's contribution
ScoreStep(acc, status) ==
    IF status = "NON_COMPLIANT" THEN acc - NonCompliantPenalty
    ELSE IF status = "PARTIAL" THEN acc - PartialPenalty
    ELSE acc

\* the for loop over findings, left to right, starting from acc
RECURSIVE ScoreLoop(_, _)
ScoreLoop(acc, fs) ==
    IF fs = <<>> THEN acc
    ELSE ScoreLoop(ScoreStep(acc, Head(fs)), Tail(fs))

\* mutant: the final max(0.0, score) is dropped
compute_compliance_score_noclamp(fs) == ScoreLoop(ScoreStart, fs)

compute_compliance_score(fs) == Max(0, ScoreLoop(ScoreStart, fs))

(***************************************************************************)
(* config.requirements.get_requirements (the number of requirements)       *)
(***************************************************************************)
NumIso27001Requirements == 5

NumGdprRequirements == 4

\* mutant: a framework without a list falls back to the ISO27001 list
get_requirements_default_iso(fw) ==
    IF fw = "GDPR" THEN NumGdprRequirements ELSE NumIso27001Requirements

get_requirements(fw) ==
    IF fw = "ISO27001" THEN NumIso27001Requirements
    ELSE IF fw = "GDPR" THEN NumGdprRequirements
    ELSE 0

(***************************************************************************)
(* policy_analysis.analyze_policy                                          *)
(***************************************************************************)
\* a direct call of compute_compliance_score on a list of findings
ComputeScore ==
    /\ auditPc = "idle"
    /\ score = None
    /\ score' = Some(compute_compliance_score(findings))
    /\ UNCHANGED <<findings, auditPc, framework, requirements, agentCalls, summary>>
    /\ UNCHANGED <<invoked, auditError, cancelRequested>>
    /\ UNCHANGED notScoreVars

\* analyze_policy up to the start of the loop over requirements
AnalyzePolicyStart ==
    /\ auditPc = "start"
    /\ requirements' = get_requirements(framework)
    /\ findings' = <<>>
    /\ invoked' = <<>>
    /\ auditPc' = "loop"
    /\ UNCHANGED <<score, framework, agentCalls, summary, auditError, cancelRequested>>
    /\ UNCHANGED notScoreVars

\* mutant: the loop leaves the last requirement out
LoopStopsEarly(done, n) == done + 1 < n

\* `for requirement in requirements`: requirements remain after `done` iterations
LoopContinues(done, n) == done < n

\* one iteration of the loop: the excerpt search returns, agent.analyze is
\* invoked with the requirement and returns a finding, which is appended
AnalyzePolicyRequirement ==
    /\ auditPc = "loop"
    /\ LoopContinues(Len(findings), requirements)
    /\ \E st \in ComplianceStatus :
           findings' = Append(findings, st)
    /\ agentCalls' = agentCalls + 1
    /\ invoked' = Append(invoked, Len(findings) + 1)
    /\ UNCHANGED <<score, auditPc, framework, requirements, summary>>
    /\ UNCHANGED <<auditError, cancelRequested>>
    /\ UNCHANGED notScoreVars

\* the calls an iteration makes that can raise
IterationCalls == {"similarity_search", "agent.analyze"}

\* one iteration of the loop in which a call raises: the loop has no handler,
\* so the exception leaves analyze_policy and no summary is returned
AnalyzePolicyRequirementRaises ==
    /\ auditPc = "loop"
    /\ LoopContinues(Len(findings), requirements)
    /\ \E call \in IterationCalls :
           /\ auditError' = Some([call |-> call, requirement |-> Len(findings) + 1])
           /\ IF call = "agent.analyze"
              THEN /\ agentCalls' = agentCalls + 1
                   /\ invoked' = Append(invoked, Len(findings) + 1)
              ELSE UNCHANGED <<agentCalls, invoked>>
    /\ auditPc' = "failed"
    /\ UNCHANGED <<findings, score, framework, requirements, summary, cancelRequested>>
    /\ UNCHANGED notScoreVars

\* the caller asks for the running audit to be cancelled; analyze_policy has
\* no parameter, flag or check through which the request could reach the loop
RequestCancel ==
    /\ auditPc \in {"start", "loop"}
    /\ ~cancelRequested
    /\ cancelRequested' = TRUE
    /\ UNCHANGED <<findings, score, auditPc, framework, requirements, agentCalls,
                   summary, invoked, auditError>>
    /\ UNCHANGED notScoreVars

\* after the loop: the counts, the score and the returned summary
AnalyzePolicyReturn ==
    /\ auditPc = "loop"
    /\ ~LoopContinues(Len(findings), requirements)
    /\ score' = Some(compute_compliance_score(findings))
    /\ summary' = Some([total_findings |-> Len(findings),
                   compliant |-> CountOf(findings, "COMPLIANT"),
                   partial |-> CountOf(findings, "PARTIAL"),
                   non_compliant |-> CountOf(findings, "NON_COMPLIANT"),
                   compliance_score |-> compute_compliance_score(findings),
                   findings |-> findings])
    /\ auditPc' = "done"
    /\ UNCHANGED <<findings, framework, requirements, agentCalls>>
    /\ UNCHANGED <<invoked, auditError, cancelRequested>>
    /\ UNCHANGED notScoreVars

InitScore ==
    /\ IdleExcept("score")
    /\ score = None
    /\ \/ /\ findings \in SeqUpTo(ComplianceStatus, MaxFindings)
          /\ AuditIdle
       \/ /\ findings = <<>>
          /\ auditPc = "start"
          /\ framework \in Framework
          /\ requirements = 0
          /\ agentCalls = 0
          /\ summary = None
          /\ invoked = <<>>
          /\ auditError = None
          /\ cancelRequested = FALSE

NextScore ==
    \/ ComputeScore
    \/ AnalyzePolicyStart
    \/ AnalyzePolicyRequirement
    \/ AnalyzePolicyRequirementRaises
    \/ RequestCancel
    \/ AnalyzePolicyReturn

SpecScore == InitScore /\ [][NextScore]_vars

(***************************************************************************)
(* C1: whenever a score has been computed for a list of findings (by a     *)
(* direct call of compute_compliance_score or for the summary returned by  *)
(* analyze_policy), it equals max(0, 100 - 20*#NON_COMPLIANT -             *)
(* 10*#PARTIAL) and lies within 0..100; the summary stores that value.     *)
(***************************************************************************)
ExpectedScore(fs) ==
    Max(0, 100 - 20 * CountOf(fs, "NON_COMPLIANT") - 10 * CountOf(fs, "PARTIAL"))

C1_ScoreFormula ==
    /\ score # None =>
           /\ The(score) = ExpectedScore(findings)
           /\ The(score) >= 0
           /\ The(score) <= 100
    /\ summary # None =>
           /\ The(summary).compliance_score = ExpectedScore(The(summary).findings)
           /\ The(summary).findings = findings
           /\ Some(The(summary).compliance_score) = score

\* the clamp at 0 has acted: six NON_COMPLIANT findings would give -20
C1_Witness ==
    /\ score = Some(0)
    /\ CountOf(findings, "NON_COMPLIANT") = 6

(***************************************************************************)
(* C13: analyze_policy invokes the agent once per requirement, in          *)
(* requirement order (invocation i is for requirement i, so no requirement *)
(* is invoked twice or skipped over), each invocation that returns adds    *)
(* one finding, and a returned summary holds exactly one finding per       *)
(* requirement of the framework (5 for ISO27001, 4 for GDPR, 0 otherwise), *)
(* finding i being the one of requirement i, with total_findings equal to  *)
(* the number of requirements.                                             *)
(***************************************************************************)
RequirementCount ==
    IF framework = "ISO27001" THEN 5 ELSE IF framework = "GDPR" THEN 4 ELSE 0

C13_OneFindingPerRequirement ==
    /\ agentCalls = Len(invoked)
    /\ \A i \in 1..Len(invoked) : invoked[i] = i
    /\ auditPc \in {"loop", "done"} => Len(findings) = Len(invoked)
    /\ summary # None =>
           /\ The(summary).total_findings = RequirementCount
           /\ Len(The(summary).findings) = RequirementCount
           /\ The(summary).findings = findings
           /\ invoked = [i \in 1..RequirementCount |-> i]

\* an ISO27001 audit returned: five invocations, five findings, a mix of statuses
C13_Witness ==
    /\ summary # None
    /\ framework = "ISO27001"
    /\ invoked = <<1, 2, 3, 4, 5>>
    /\ The(summary).total_findings = 5
    /\ The(summary).findings[2] = "NON_COMPLIANT"
    /\ The(summary).findings[5] = "COMPLIANT"

C15_FailureIsolated ==
    auditError # None =>
        /\ auditPc \in {"loop", "done"}
        /\ Len(findings) >= The(auditError).requirement
        /\ findings[The(auditError).requirement] = "INSUFFICIENT_EVIDENCE"

(***************************************************************************)
(* C18: once cancellation has been requested, no step starts a further     *)
(* agent invocation.                                                       *)
(***************************************************************************)
C18_NoInvocationAfterCancel ==
    [][cancelRequested => agentCalls' = agentCalls]_vars

(***************************************************************************)
(* C20: the score computed for a list of findings is not exceeded by the   *)
(* score of the list with any finding appended, nor by the score of the    *)
(* list with one status replaced by the next worse one (COMPLIANT to       *)
(* PARTIAL, PARTIAL to NON_COMPLIANT), and equals the score of the list    *)
(* with any two findings exchanged; every permutation being a product of   *)
(* exchanges between lists that are all checked, the score is the same for *)
(* every permutation.                                                      *)
(***************************************************************************)
Worse(status) ==
    IF status = "COMPLIANT" THEN {"PARTIAL"}
    ELSE IF status = "PARTIAL" THEN {"NON_COMPLIANT"}
    ELSE {}

Exchanged(fs, i, j) == [fs EXCEPT ![i] = fs[j], ![j] = fs[i]]

C20_ScoreMonotonic ==
    score # None =>
        /\ \A st \in ComplianceStatus :
               compute_compliance_score(Append(findings, st)) <= The(score)
        /\ \A i \in 1..Len(findings) : \A w \in Worse(findings[i]) :
               compute_compliance_score([findings EXCEPT ![i] = w]) <= The(score)
        /\ \A i, j \in 1..Len(findings) :
               compute_compliance_score(Exchanged(findings, i, j)) = The(score)

\* a scored list on which appending, worsening and exchanging all change something
C20_Witness ==
    /\ score = Some(50)
    /\ Len(findings) >= 4
    /\ findings[1] = "COMPLIANT"
    /\ findings[2] = "PARTIAL"
    /\ findings[3] = "NON_COMPLIANT"
    /\ findings[4] = "NON_COMPLIANT"

(***************************************************************************)
(* Python string operations on character sequences.                        *)
(***************************************************************************)
UpperLetters ==
    <<"A", "B", "C", "D", "E", "F", "G", "H", "I", "J", "K", "L", "M",
      "N", "O", "P", "Q", "R", "S", "T", "U", "V", "W", "X", "Y", "Z">>

LowerLetters ==
    <<"a", "b", "c", "d", "e", "f", "g", "h", "i", "j", "k", "l", "m",
      "n", "o", "p", "q", "r", "s", "t", "u", "v", "w", "x", "y", "z">>

\* str.lower() on one character
LowerChar(c) ==
    IF \E i \in 1..26 : UpperLetters[i] = c
    THEN LowerLetters[CHOOSE i \in 1..26 : UpperLetters[i] = c]
    ELSE c

\* str.lower()
Lower(t) == [i \in 1..Len(t) |-> LowerChar(t[i])]

\* pattern in text (pattern non-empty)
Contains(t, pat) ==
    \E i \in 1..(Len(t) - Len(pat) + 1) : SubSeq(t, i, i + Len(pat) - 1) = pat

\* text.startswith(pattern)
StartsWith(t, pat) ==
    /\ Len(t) >= Len(pat)
    /\ SubSeq(t, 1, Len(pat)) = pat

\* the characters str.strip() removes
Whitespace == {" ", "\n", "\t"}

\* str.strip()
Strip(t) ==
    LET keep == {i \in 1..Len(t) : t[i] \notin Whitespace}
    IN  IF keep = {} THEN <<>>
        ELSE LET lo == CHOOSE i \in keep : \A j \in keep : i <= j
                 hi == CHOOSE i \in keep : \A j \in keep : i >= j
             IN  SubSeq(t, lo, hi)

\* the concatenation of a sequence of character sequences
RECURSIVE Concat(_)
Concat(parts) ==
    IF parts = <<>> THEN <<>>
    ELSE Head(parts) \o Concat(Tail(parts))

\* str.split(sep) for a one-character separator: the pieces between separators
RECURSIVE SplitOn(_, _)
SplitOn(t, sep) ==
    LET hits == {i \in 1..Len(t) : t[i] = sep}
    IN  IF hits = {} THEN <<t>>
        ELSE LET k == CHOOSE i \in hits : \A j \in hits : i <= j
             IN  <<SubSeq(t, 1, k - 1)>> \o SplitOn(SubSeq(t, k + 1, Len(t)), sep)

(***************************************************************************)
(* Retrieval Quality Assessor: ComplianceAgent._assess_retrieval_quality   *)
(* of the per-requirement agent.  Scores are in hundredths.                *)
(***************************************************************************)
ConfidenceLevel == {"HIGH", "MEDIUM", "LOW"}

\* policy constants of the assessor
SpreadThreshold == 15

MinNonEmpty == 2

HighNonEmpty == 3

\* mutant: the spread threshold is inclusive
SpreadAtLeast(spread) == spread >= SpreadThreshold

\* step 5: the scores are well separated
SpreadSeparates(spread) == spread > SpreadThreshold

\* mutant: documents are counted without trimming whitespace
NonEmptyDocsUntrimmed(ds) == Cardinality({i \in 1..Len(ds) : ds[i] # <<>>})

\* step 2: number of documents whose text is non-empty after strip()
NonEmptyCount(ds) == Cardinality({i \in 1..Len(ds) : Strip(ds[i]) # <<>>})

SeqMax(s) == CHOOSE x \in {s[i] : i \in 1..Len(s)} : \A i \in 1..Len(s) : x >= s[i]

SeqMin(s) == CHOOSE x \in {s[i] : i \in 1..Len(s)} : \A i \in 1..Len(s) : x <= s[i]

Assessment(conf, notes, ok) == [confidence |-> conf, notes |-> notes, sufficient |-> ok]

\* mutant: moderate evidence asks for as many non-empty documents as good evidence
assess_retrieval_quality_strict_moderate(ds, sc) ==
    IF Len(ds) = 0
    THEN Assessment("LOW", "No chunks retrieved", FALSE)
    ELSE IF NonEmptyCount(ds) < MinNonEmpty
    THEN Assessment("LOW", "Too few non-empty chunks", FALSE)
    ELSE IF Len(sc) = 0
    THEN Assessment("MEDIUM", "Scores unavailable", TRUE)
    ELSE LET spread == SeqMax(sc) - SeqMin(sc)
         IN  IF NonEmptyCount(ds) >= HighNonEmpty /\ SpreadSeparates(spread)
             THEN Assessment("HIGH", "Good score separation", TRUE)
             ELSE IF NonEmptyCount(ds) >= HighNonEmpty
             THEN Assessment("MEDIUM", "Moderate evidence", TRUE)
             ELSE Assessment("LOW", "Weak evidence", FALSE)

assess_retrieval_quality(ds, sc) ==
    IF Len(ds) = 0
    THEN Assessment("LOW", "No chunks retrieved", FALSE)
    ELSE IF NonEmptyCount(ds) < MinNonEmpty
    THEN Assessment("LOW", "Too few non-empty chunks", FALSE)
    ELSE IF Len(sc) = 0
    THEN Assessment("MEDIUM", "Scores unavailable", TRUE)
    ELSE LET spread == SeqMax(sc) - SeqMin(sc)
         IN  IF NonEmptyCount(ds) >= HighNonEmpty /\ SpreadSeparates(spread)
             THEN Assessment("HIGH", "Good score separation", TRUE)
             ELSE IF NonEmptyCount(ds) >= MinNonEmpty
             THEN Assessment("MEDIUM", "Moderate evidence", TRUE)
             ELSE Assessment("LOW", "Weak evidence", FALSE)

\* document texts: empty, whitespace only, text with surrounding whitespace
DocTexts == {<<>>, <<" ", "\n">>, <<" ", "a", " ">>}

\* similarity scores in hundredths: spreads of 0, 15, 16 and more occur
ScoreValues == {10, 25, 26, 50}

\* a call of _assess_retrieval_quality(docs, scores)
AssessRetrievalQuality ==
    /\ assessment = None
    /\ assessment' = Some(assess_retrieval_quality(docs, scores))
    /\ UNCHANGED <<docs, scores>>
    /\ UNCHANGED notAssessVars

InitAssess ==
    /\ IdleExcept("assess")
    /\ docs \in SeqUpTo(DocTexts, MaxDocs)
    /\ scores \in SeqUpTo(ScoreValues, MaxDocs)
    /\ assessment = None

NextAssess ==
    \/ AssessRetrievalQuality

SpecAssess == InitAssess /\ [][NextAssess]_vars

\* documents holding at least one character that is not whitespace
DocsWithText(ds) ==
    {i \in 1..Len(ds) : \E j \in 1..Len(ds[i]) : ds[i][j] \notin Whitespace}

\* some two scores differ by more than 0.15
ScoresSpreadOver15(sc) ==
    \E i \in 1..Len(sc) : \E j \in 1..Len(sc) : sc[i] - sc[j] > 15

(***************************************************************************)
(* C4: the assessor returns (LOW, not sufficient) whenever no document is  *)
(* retrieved or fewer than 2 documents have non-blank text, whatever the   *)
(* scores are.                                                             *)
(***************************************************************************)
C4_EmptinessDominates ==
    (assessment # None /\ Cardinality(DocsWithText(docs)) < 2) =>
        /\ The(assessment).confidence = "LOW"
        /\ The(assessment).sufficient = FALSE

\* three documents, one of them with text, scores spread by more than 0.15
C4_Witness ==
    /\ assessment # None
    /\ Len(docs) = 3
    /\ Cardinality(DocsWithText(docs)) = 1
    /\ ScoresSpreadOver15(scores)
    /\ The(assessment).confidence = "LOW"

(***************************************************************************)
(* C5: with at least 2 non-blank documents the assessor returns HIGH       *)
(* exactly when scores are present, at least 3 documents are non-blank and *)
(* the spread is strictly above 0.15, and MEDIUM otherwise; both verdicts  *)
(* are sufficient.                                                         *)
(***************************************************************************)
C5_HighOrMedium ==
    (assessment # None /\ Cardinality(DocsWithText(docs)) >= 2) =>
        /\ The(assessment).sufficient = TRUE
        /\ The(assessment).confidence \in {"HIGH", "MEDIUM"}
        /\ The(assessment).confidence = "HIGH" <=>
               /\ scores # <<>>
               /\ Cardinality(DocsWithText(docs)) >= 3
               /\ ScoresSpreadOver15(scores)

\* three non-blank documents whose scores spread by exactly 0.15: MEDIUM
C5_Witness ==
    /\ assessment # None
    /\ Cardinality(DocsWithText(docs)) = 3
    /\ scores = <<10, 25, 10>>
    /\ The(assessment).confidence = "MEDIUM"

(***************************************************************************)
(* Keywords searched in response texts.                                    *)
(***************************************************************************)
KwInsufficient == <<"i", "n", "s", "u", "f", "f", "i", "c", "i", "e", "n", "t">>

KwNotEnoughEvidence ==
    <<"n", "o", "t", " ", "e", "n", "o", "u", "g", "h", " ",
      "e", "v", "i", "d", "e", "n", "c", "e">>

KwNonHyphenCompliant ==
    <<"n", "o", "n", "-", "c", "o", "m", "p", "l", "i", "a", "n", "t">>

KwNonSpaceCompliant ==
    <<"n", "o", "n", " ", "c", "o", "m", "p", "l", "i", "a", "n", "t">>

KwNotCompliant ==
    <<"n", "o", "t", " ", "c", "o", "m", "p", "l", "i", "a", "n", "t">>

KwPartial == <<"p", "a", "r", "t", "i", "a", "l">>

KwCompliant == <<"c", "o", "m", "p", "l", "i", "a", "n", "t">>

KwNotApplicable ==
    <<"n", "o", "t", " ", "a", "p", "p", "l", "i", "c", "a", "b", "l", "e">>

KwNA == <<"n", "/", "a">>

(***************************************************************************)
(* Single-verdict status inference: ComplianceAgent._infer_status of the   *)
(* per-requirement agent.                                                  *)
(***************************************************************************)
\* mutant: an unrecognised text is taken to be compliant
infer_status_default_compliant(t) ==
    LET text_lower == Lower(t)
    IN  IF Contains(text_lower, KwInsufficient) \/ Contains(text_lower, KwNotEnoughEvidence)
        THEN "INSUFFICIENT_EVIDENCE"
        ELSE IF Contains(text_lower, KwNonHyphenCompliant) \/ Contains(text_lower, KwNotCompliant)
        THEN "NON_COMPLIANT"
        ELSE IF Contains(text_lower, KwPartial)
        THEN "PARTIAL"
        ELSE "COMPLIANT"

infer_status(t) ==
    LET text_lower == Lower(t)
    IN  IF Contains(text_lower, KwInsufficient) \/ Contains(text_lower, KwNotEnoughEvidence)
        THEN "INSUFFICIENT_EVIDENCE"
        ELSE IF Contains(text_lower, KwNonHyphenCompliant) \/ Contains(text_lower, KwNotCompliant)
        THEN "NON_COMPLIANT"
        ELSE IF Contains(text_lower, KwPartial)
        THEN "PARTIAL"
        ELSE IF Contains(text_lower, KwCompliant)
        THEN "COMPLIANT"
        ELSE "INSUFFICIENT_EVIDENCE"

(***************************************************************************)
(* agent.ResponseParser._extract_status (structured extraction)            *)
(***************************************************************************)
\* agent.ComplianceStatus of the report parser
ParserStatus == {"COMPLIANT", "PARTIAL", "NON_COMPLIANT", "NOT_APPLICABLE"}

\* mutant: 'compliant' is tested before 'partial'
extract_status_compliant_first(t) ==
    LET text_lower == Lower(t)
    IN  IF Contains(text_lower, KwNonHyphenCompliant) \/ Contains(text_lower, KwNonSpaceCompliant)
        THEN "NON_COMPLIANT"
        ELSE IF Contains(text_lower, KwCompliant)
        THEN "COMPLIANT"
        ELSE IF Contains(text_lower, KwPartial)
        THEN "PARTIAL"
        ELSE IF Contains(text_lower, KwNotApplicable) \/ Contains(text_lower, KwNA)
        THEN "NOT_APPLICABLE"
        ELSE "NON_COMPLIANT"

extract_status(t) ==
    LET text_lower == Lower(t)
    IN  IF Contains(text_lower, KwNonHyphenCompliant) \/ Contains(text_lower, KwNonSpaceCompliant)
        THEN "NON_COMPLIANT"
        ELSE IF Contains(text_lower, KwPartial)
        THEN "PARTIAL"
        ELSE IF Contains(text_lower, KwCompliant)
        THEN "COMPLIANT"
        ELSE IF Contains(text_lower, KwNotApplicable) \/ Contains(text_lower, KwNA)
        THEN "NOT_APPLICABLE"
        ELSE "NON_COMPLIANT"

(***************************************************************************)
(* Status inference on response texts put together from fragments.         *)
(***************************************************************************)
StatusFragments ==
    { <<"N", "o", "n", "-">>,
      <<"n", "o", "n", " ">>,
      <<"N", "O", "T", " ">>,
      <<"C", "o", "m", "p", "l", "i", "a", "n", "t">>,
      <<"P", "A", "R", "T", "I", "A", "L", "l", "y", " ">>,
      <<"I", "n", "s", "u", "f", "f", "i", "c", "i", "e", "n", "t", " ">>,
      <<"e", "n", "o", "u", "g", "h", " ", "e", "v", "i", "d", "e", "n", "c", "e">>,
      <<"a", "p", "p", "l", "i", "c", "a", "b", "l", "e">>,
      <<"N", "/", "A">>,
      <<"o", "k", ".", "\n">> }

StatusTexts == {Concat(ts) : ts \in SeqUpTo(StatusFragments, MaxStatusTokens)}

Returned(op, value) == Some([op |-> op, value |-> value])

\* a call of ComplianceAgent._infer_status(text)
InferStatus ==
    /\ parsed = None
    /\ parsed' = Returned("_infer_status", infer_status(text))
    /\ UNCHANGED text
    /\ UNCHANGED notParserVars

\* a call of ResponseParser._extract_status(text)
ExtractStatus ==
    /\ parsed = None
    /\ parsed' = Returned("_extract_status", extract_status(text))
    /\ UNCHANGED text
    /\ UNCHANGED notParserVars

InitStatus ==
    /\ IdleExcept("parser")
    /\ text \in StatusTexts
    /\ parsed = None

NextStatus ==
    \/ InferStatus
    \/ ExtractStatus

SpecStatus == InitStatus /\ [][NextStatus]_vars

\* the call `op` has returned
Called(op) == parsed # None /\ The(parsed).op = op

\* the lower-cased text holds the keyword
Has(kw) == Contains(Lower(text), kw)

(***************************************************************************)
(* C6: single-verdict status inference always returns a status, by the     *)
(* fixed priority insufficient / not enough evidence, then non-compliant / *)
(* not compliant, then partial, then compliant, else                       *)
(* INSUFFICIENT_EVIDENCE; COMPLIANT is returned only for a text holding    *)
(* 'compliant'.                                                            *)
(***************************************************************************)
C6_InferStatusPriority ==
    Called("_infer_status") =>
        LET v == The(parsed).value
            insufficient == Has(KwInsufficient) \/ Has(KwNotEnoughEvidence)
            noncompliant == Has(KwNonHyphenCompliant) \/ Has(KwNotCompliant)
        IN  /\ v \in ComplianceStatus
            /\ insufficient => v = "INSUFFICIENT_EVIDENCE"
            /\ (~insufficient /\ noncompliant) => v = "NON_COMPLIANT"
            /\ (~insufficient /\ ~noncompliant /\ Has(KwPartial)) => v = "PARTIAL"
            /\ (~insufficient /\ ~noncompliant /\ ~Has(KwPartial) /\ Has(KwCompliant))
                   => v = "COMPLIANT"
            /\ (~insufficient /\ ~noncompliant /\ ~Has(KwPartial) /\ ~Has(KwCompliant))
                   => v = "INSUFFICIENT_EVIDENCE"
            /\ v = "COMPLIANT" => Has(KwCompliant)

\* a non-empty text without any keyword falls back to INSUFFICIENT_EVIDENCE
C6_Witness ==
    /\ Called("_infer_status")
    /\ text # <<>>
    /\ ~Has(KwInsufficient)
    /\ ~Has(KwNotEnoughEvidence)
    /\ ~Has(KwCompliant)
    /\ ~Has(KwPartial)
    /\ The(parsed).value = "INSUFFICIENT_EVIDENCE"

(***************************************************************************)
(* C7 as stated: a text holding 'partial' and 'compliant' but not          *)
(* 'non-compliant' is given status PARTIAL by _extract_status.             *)
(***************************************************************************)
C7_PartialUnlessHyphenated ==
    (/\ Called("_extract_status")
     /\ Has(KwPartial)
     /\ Has(KwCompliant)
     /\ ~Has(KwNonHyphenCompliant)) => The(parsed).value = "PARTIAL"

(***************************************************************************)
(* C7 amended: a text holding 'partial' and 'compliant' but neither        *)
(* 'non-compliant' nor 'non compliant' is given status PARTIAL by          *)
(* _extract_status.                                                        *)
(***************************************************************************)
C7_PartialUnlessNonCompliant ==
    (/\ Called("_extract_status")
     /\ Has(KwPartial)
     /\ Has(KwCompliant)
     /\ ~Has(KwNonHyphenCompliant)
     /\ ~Has(KwNonSpaceCompliant)) => The(parsed).value = "PARTIAL"

\* 'partial' and 'compliant' both present, no non-compliant term: PARTIAL
C7_Witness ==
    /\ Called("_extract_status")
    /\ Has(KwPartial)
    /\ Has(KwCompliant)
    /\ ~Has(KwNonHyphenCompliant)
    /\ ~Has(KwNonSpaceCompliant)
    /\ The(parsed).value = "PARTIAL"

(***************************************************************************)
(* agent.ResponseParser: structured extraction of findings                 *)
(***************************************************************************)
KwControlId ==
    <<"c", "o", "n", "t", "r", "o", "l", " ", "i", "d">>

KwControlColon ==
    <<"c", "o", "n", "t", "r", "o", "l", ":">>

KwTitle ==
    <<"t", "i", "t", "l", "e">>

KwControlTitle ==
    <<"c", "o", "n", "t", "r", "o", "l", " ", "t", "i", "t", "l", "e">>

KwRequirement ==
    <<"r", "e", "q", "u", "i", "r", "e", "m", "e", "n", "t">>

KwRequirements ==
    <<"r", "e", "q", "u", "i", "r", "e", "m", "e", "n", "t", "s">>

KwEvidence ==
    <<"e", "v", "i", "d", "e", "n", "c", "e">>

KwDocumentEvidence ==
    <<"d", "o", "c", "u", "m", "e", "n", "t", " ", "e", "v", "i", "d",
      "e", "n", "c", "e">>

KwGap ==
    <<"g", "a", "p">>

KwGapDescription ==
    <<"g", "a", "p", " ", "d", "e", "s", "c", "r", "i", "p", "t", "i",
      "o", "n">>

KwRecommendation ==
    <<"r", "e", "c", "o", "m", "m", "e", "n", "d", "a", "t", "i", "o", "n">>

KwAction ==
    <<"a", "c", "t", "i", "o", "n">>

KwCritical ==
    <<"c", "r", "i", "t", "i", "c", "a", "l">>

KwHigh ==
    <<"h", "i", "g", "h">>

KwMedium ==
    <<"m", "e", "d", "i", "u", "m">>

KwLow ==
    <<"l", "o", "w">>

KwH3 ==
    <<"#", "#", "#">>

KwH2 ==
    <<"#", "#">>

StrUnknown ==
    <<"U", "n", "k", "n", "o", "w", "n">>

\* agent.SeverityLevel
SeverityLevel == {"CRITICAL", "HIGH", "MEDIUM", "LOW"}

\* sep.join(parts)
RECURSIVE Join(_, _)
Join(parts, sep) ==
    IF parts = <<>> THEN <<>>
    ELSE IF Len(parts) = 1 THEN Head(parts)
    ELSE Head(parts) \o sep \o Join(Tail(parts), sep)

\* line.split(':', 1)[-1]: what follows the first colon (the line if none)
AfterFirstColon(line) ==
    LET hits == {i \in 1..Len(line) : line[i] = ":"}
    IN  IF hits = {} THEN line
        ELSE SubSeq(line, (CHOOSE i \in hits : \A j \in hits : i <= j) + 1, Len(line))

is_finding_header(line) ==
    \/ Contains(Lower(line), KwControlId)
    \/ StartsWith(Strip(line), KwH3)
    \/ StartsWith(Strip(line), KwH2)

\* mutant: the lines before the first header open a section of their own
RECURSIVE SplitSectionsKeepingPreamble(_, _, _)
SplitSectionsKeepingPreamble(lines, sections, current_section) ==
    IF lines = <<>>
    THEN IF current_section # <<>>
         THEN Append(sections, Join(current_section, <<"\n">>))
         ELSE sections
    ELSE LET line == Head(lines)
         IN  IF is_finding_header(line)
             THEN SplitSectionsKeepingPreamble(
                      Tail(lines),
                      IF current_section # <<>>
                      THEN Append(sections, Join(current_section, <<"\n">>))
                      ELSE sections,
                      <<line>>)
             ELSE SplitSectionsKeepingPreamble(
                      Tail(lines),
                      sections,
                      Append(current_section, line))

\* the loop of _split_into_finding_sections over the remaining lines
RECURSIVE SplitSectionsLoop(_, _, _)
SplitSectionsLoop(lines, sections, current_section) ==
    IF lines = <<>>
    THEN IF current_section # <<>>
         THEN Append(sections, Join(current_section, <<"\n">>))
         ELSE sections
    ELSE LET line == Head(lines)
         IN  IF is_finding_header(line)
             THEN SplitSectionsLoop(
                      Tail(lines),
                      IF current_section # <<>>
                      THEN Append(sections, Join(current_section, <<"\n">>))
                      ELSE sections,
                      <<line>>)
             ELSE SplitSectionsLoop(
                      Tail(lines),
                      sections,
                      IF current_section # <<>>
                      THEN Append(current_section, line)
                      ELSE current_section)

split_into_finding_sections(t) == SplitSectionsLoop(SplitOn(t, "\n"), <<>>, <<>>)

\* the inner loop of _extract_field: first line holding the pattern with a value
RECURSIVE FieldInLines(_, _)
FieldInLines(lines, pattern) ==
    IF lines = <<>> THEN <<>>
    ELSE LET line == Head(lines)
             value == Strip(AfterFirstColon(line))
         IN  IF Contains(Lower(line), pattern) /\ value # <<>>
             THEN value
             ELSE FieldInLines(Tail(lines), pattern)

\* the outer loop of _extract_field over the accepted field names
RECURSIVE extract_field(_, _)
extract_field(t, field_names) ==
    IF field_names = <<>> THEN <<>>
    ELSE LET value == FieldInLines(SplitOn(t, "\n"), Append(Head(field_names), ":"))
         IN  IF value # <<>> THEN value
             ELSE extract_field(t, Tail(field_names))

\* mutant: the severity keywords are tested from 'low' up to 'critical'
extract_severity_low_first(t) ==
    LET text_lower == Lower(t)
    IN  IF Contains(text_lower, KwLow) THEN "LOW"
        ELSE IF Contains(text_lower, KwMedium) THEN "MEDIUM"
        ELSE IF Contains(text_lower, KwHigh) THEN "HIGH"
        ELSE IF Contains(text_lower, KwCritical) THEN "CRITICAL"
        ELSE "MEDIUM"

extract_severity(t) ==
    LET text_lower == Lower(t)
    IN  IF Contains(text_lower, KwCritical) THEN "CRITICAL"
        ELSE IF Contains(text_lower, KwHigh) THEN "HIGH"
        ELSE IF Contains(text_lower, KwMedium) THEN "MEDIUM"
        ELSE IF Contains(text_lower, KwLow) THEN "LOW"
        ELSE "MEDIUM"

\* x or default
OrElse(x, default) == IF x # <<>> THEN x ELSE default

\* _parse_finding_section: None, or the ComplianceFinding of the section
parse_finding_section(section) ==
    LET control_id == extract_field(section, <<KwControlId, KwControlColon>>)
        control_title == extract_field(section, <<KwTitle, KwControlTitle>>)
        requirement == extract_field(section, <<KwRequirement, KwRequirements>>)
        evidence == extract_field(section, <<KwEvidence, KwDocumentEvidence>>)
        status == extract_status(section)
        gap == extract_field(section, <<KwGap, KwGapDescription>>)
        severity == extract_severity(section)
        recommendation == extract_field(section, <<KwRecommendation, KwAction>>)
    IN  IF control_id = <<>> THEN None
        ELSE Some([control_id |-> control_id,
                   control_title |-> OrElse(control_title, StrUnknown),
                   requirement |-> requirement,
                   evidence |-> evidence,
                   status |-> status,
                   gap_description |-> gap,
                   severity |-> severity,
                   recommendation |-> recommendation])

\* the loop of _extract_findings over the sections
RECURSIVE FindingsOfSections(_)
FindingsOfSections(sections) ==
    IF sections = <<>> THEN <<>>
    ELSE parse_finding_section(Head(sections)) \o FindingsOfSections(Tail(sections))

\* mutant: the parser keeps the findings of the earlier run and adds to them
extract_findings_accumulating(t) ==
    (IF daPrev # None /\ The(daPrev).result.report # None
     THEN The(The(daPrev).result.report).findings
     ELSE <<>>)
    \o FindingsOfSections(split_into_finding_sections(t))

extract_findings(t) == FindingsOfSections(split_into_finding_sections(t))

(***************************************************************************)
(* Structured extraction on response texts put together from fragments.    *)
(***************************************************************************)
SectionFragments ==
    { <<"C", "o", "n", "t", "r", "o", "l", " ", "I", "D", ":", " ", "A",
        "1", "\n">>,
      <<"#", "#", " ", "A", "c", "c", "e", "s", "s", "\n">>,
      <<"C", "o", "n", "t", "r", "o", "l", " ", "I", "D", "\n">>,
      <<"i", "n", "t", "r", "o", "\n">>,
      <<"c", "o", "n", "t", "r", "o", "l", ":", ":", " ", "B", "2", "\n">>,
      <<"S", "t", "a", "t", "u", "s", ":", " ", "C", "o", "m", "p", "l",
        "i", "a", "n", "t", "\n">>,
      <<"P", "a", "r", "t", "i", "a", "l", " ">>,
      <<"n", "o", "n", "-", "c", "o", "m", "p", "l", "i", "a", "n", "t",
        "\n">>,
      <<"S", "e", "v", "e", "r", "i", "t", "y", ":", " ", "H", "i", "g",
        "h", "\n">>,
      <<"c", "r", "i", "t", "i", "c", "a", "l", " ">>,
      <<"T", "i", "t", "l", "e", ":", " ", "L", "o", "w", " ", "u", "s",
        "e", "\n">> }

SectionTexts == {Concat(ts) : ts \in SeqUpTo(SectionFragments, MaxSectionTokens)}

\* a call of ResponseParser._extract_findings(text)
ExtractFindings ==
    /\ parsed = None
    /\ parsed' = Returned("_extract_findings", extract_findings(text))
    /\ UNCHANGED text
    /\ UNCHANGED notParserVars

InitFindings ==
    /\ IdleExcept("parser")
    /\ text \in SectionTexts
    /\ parsed = None

NextFindings ==
    \/ ExtractFindings

SpecFindings == InitFindings /\ [][NextFindings]_vars

\* the severity the status of a finding determines
SeverityOfStatus(status) ==
    IF status = "NON_COMPLIANT" THEN "HIGH"
    ELSE IF status = "PARTIAL" THEN "MEDIUM"
    ELSE "LOW"

(***************************************************************************)
(* C3: every finding produced has the severity its status determines:      *)
(* HIGH for NON_COMPLIANT, MEDIUM for PARTIAL, LOW for every other status. *)
(***************************************************************************)
C3_SeverityFromStatus ==
    Called("_extract_findings") =>
        \A i \in 1..Len(The(parsed).value) :
            The(parsed).value[i].severity = SeverityOfStatus(The(parsed).value[i].status)

(***************************************************************************)
(* agent.ResponseParser._extract_score                                     *)
(* A parsed number is a decimal fraction [num, den], den a power of ten,   *)
(* kept in lowest decimal terms.                                           *)
(***************************************************************************)
KwComplianceScore ==
    <<"c", "o", "m", "p", "l", "i", "a", "n", "c", "e", " ", "s", "c",
      "o", "r", "e">>

KwOverallScore ==
    <<"o", "v", "e", "r", "a", "l", "l", " ", "s", "c", "o", "r", "e">>

KwFinalScore ==
    <<"f", "i", "n", "a", "l", " ", "s", "c", "o", "r", "e">>

Digits == <<"0", "1", "2", "3", "4", "5", "6", "7", "8", "9">>

IsDigit(c) == \E i \in 1..10 : Digits[i] = c

DigitValue(c) == (CHOOSE i \in 1..10 : Digits[i] = c) - 1

\* the integer written by a digit string, most significant digit first
RECURSIVE DigitsValue(_, _)
DigitsValue(acc, ds) ==
    IF ds = <<>> THEN acc
    ELSE DigitsValue(10 * acc + DigitValue(Head(ds)), Tail(ds))

RECURSIVE PowerOfTen(_)
PowerOfTen(n) == IF n = 0 THEN 1 ELSE 10 * PowerOfTen(n - 1)

\* lowest decimal terms
RECURSIVE Reduce(_)
Reduce(q) ==
    IF q.den > 1 /\ q.num % 10 = 0
    THEN Reduce([num |-> q.num \div 10, den |-> q.den \div 10])
    ELSE q

Whole(n) == [num |-> n, den |-> 1]

\* float(token) for a token matched by \d+\.?\d*
DecimalValue(token) ==
    LET dots == {i \in 1..Len(token) : token[i] = "."}
        cut == IF dots = {} THEN Len(token) + 1 ELSE CHOOSE i \in dots : TRUE
        int_part == SubSeq(token, 1, cut - 1)
        frac_part == SubSeq(token, cut + 1, Len(token))
    IN  Reduce([num |-> DigitsValue(0, int_part \o frac_part),
                den |-> PowerOfTen(Len(frac_part))])

\* q > 100
Over100(q) == q.num \div q.den > 100 \/ (q.num \div q.den = 100 /\ q.num % q.den # 0)

\* q / 100
DivideBy100(q) == Reduce([num |-> q.num, den |-> q.den * 100])

\* min(100.0, max(0.0, q)) for q >= 0
Clamp(q) == IF Over100(q) THEN Whole(100) ELSE q

\* end of the run of digits that starts at position i (i - 1 if none)
RECURSIVE DigitRunEnd(_, _)
DigitRunEnd(line, i) ==
    IF i <= Len(line) /\ IsDigit(line[i]) THEN DigitRunEnd(line, i + 1) ELSE i - 1

\* re.findall(r'\d+\.?\d*', line)[0], or the empty string when nothing matches
FirstNumber(line) ==
    LET starts == {i \in 1..Len(line) : IsDigit(line[i])}
    IN  IF starts = {} THEN <<>>
        ELSE LET p == CHOOSE i \in starts : \A j \in starts : i <= j
                 e1 == DigitRunEnd(line, p)
                 e2 == IF e1 < Len(line) /\ line[e1 + 1] = "." THEN e1 + 1 ELSE e1
                 e3 == DigitRunEnd(line, e2 + 1)
             IN  SubSeq(line, p, e3)

MentionsScore(line) ==
    LET line_lower == Lower(line)
    IN  \/ Contains(line_lower, KwComplianceScore)
        \/ Contains(line_lower, KwOverallScore)
        \/ Contains(line_lower, KwFinalScore)

\* mutant: a value above 100 is not divided by 100 before clamping
ScaleKeep(q) == q

\* if score > 100: score = score / 100
ScaleDown(q) == IF Over100(q) THEN DivideBy100(q) ELSE q

\* the loop of _extract_score over the lines
RECURSIVE ExtractScoreLoop(_)
ExtractScoreLoop(lines) ==
    IF lines = <<>> THEN Whole(0)
    ELSE LET line == Head(lines)
         IN  IF MentionsScore(line) /\ FirstNumber(line) # <<>>
             THEN Clamp(ScaleDown(DecimalValue(FirstNumber(line))))
             ELSE ExtractScoreLoop(Tail(lines))

extract_score(t) == ExtractScoreLoop(SplitOn(t, "\n"))

(***************************************************************************)
(* Score extraction on response texts put together from fragments.         *)
(***************************************************************************)
ScoreWordFragments ==
    { <<"F", "i", "n", "a", "l", " ", "S", "c", "o", "r", "e", ":", " ">>,
      <<"O", "v", "e", "r", "a", "l", "l", " ", "s", "c", "o", "r", "e">>,
      <<"s", "c", "o", "r", "e", " ">>,
      <<".">>,
      <<"%", "\n">> }

ScoreNumberFragments ==
    { <<"8", "5">>,
      <<"0", "0">>,
      <<"1", "0", "1">> }

ScoreFragments == ScoreWordFragments \cup ScoreNumberFragments

\* fragment lists with a bounded number of digit fragments
ScoreFragmentLists ==
    {ts \in SeqUpTo(ScoreFragments, MaxScoreTokens) :
        Cardinality({i \in 1..Len(ts) : ts[i] \in ScoreNumberFragments}) <= MaxNumberTokens}

ScoreTexts == {Concat(ts) : ts \in ScoreFragmentLists}

\* a call of ResponseParser._extract_score(text)
ExtractScore ==
    /\ parsed = None
    /\ parsed' = Returned("_extract_score", extract_score(text))
    /\ UNCHANGED text
    /\ UNCHANGED notParserVars

InitExtractScore ==
    /\ IdleExcept("parser")
    /\ text \in ScoreTexts
    /\ parsed = None

NextExtractScore ==
    \/ ExtractScore

SpecExtractScore == InitExtractScore /\ [][NextExtractScore]_vars

\* a string of the form digits, optional point, digits
IsNumberToken(s) ==
    /\ s # <<>>
    /\ IsDigit(s[1])
    /\ \A i \in 1..Len(s) : IsDigit(s[i]) \/ s[i] = "."
    /\ Cardinality({i \in 1..Len(s) : s[i] = "."}) <= 1

\* the first numeric token of a line that holds a digit
LeadingNumber(line) ==
    LET p == CHOOSE i \in 1..Len(line) :
                 IsDigit(line[i]) /\ \A j \in 1..(i - 1) : ~IsDigit(line[j])
        e == CHOOSE k \in p..Len(line) :
                 /\ IsNumberToken(SubSeq(line, p, k))
                 /\ k = Len(line) \/ ~IsNumberToken(SubSeq(line, p, k + 1))
    IN  SubSeq(line, p, e)

\* the line names a score and holds a number
ScoreLine(line) ==
    /\ \E kw \in {KwComplianceScore, KwOverallScore, KwFinalScore} : Contains(Lower(line), kw)
    /\ \E i \in 1..Len(line) : IsDigit(line[i])

\* what the claim says the extracted score is
ClaimedScore(t) ==
    LET lines == SplitOn(t, "\n")
        hits == {i \in 1..Len(lines) : ScoreLine(lines[i])}
    IN  IF hits = {} THEN Whole(0)
        ELSE LET first == CHOOSE i \in hits : \A j \in hits : i <= j
                 n == DecimalValue(LeadingNumber(lines[first]))
                 scaled == IF Over100(n) THEN DivideBy100(n) ELSE n
             IN  IF Over100(scaled) THEN Whole(100) ELSE scaled

(***************************************************************************)
(* C8: the extracted score lies in [0,100]; it is the first numeric token  *)
(* of the first line naming a compliance/overall/final score, divided by   *)
(* 100 when above 100, then clamped; it is 0 when no line matches.         *)
(***************************************************************************)
C8_ExtractScore ==
    Called("_extract_score") =>
        LET v == The(parsed).value
        IN  /\ v.num >= 0
            /\ v.num <= 100 * v.den
            /\ v = ClaimedScore(text)
            /\ (\A i \in 1..Len(SplitOn(text, "\n")) : ~MentionsScore(SplitOn(text, "\n")[i]))
                   => v = Whole(0)

\* "Final Score: 8500" gives 85
C8_Witness ==
    /\ Called("_extract_score")
    /\ text = <<"F", "i", "n", "a", "l", " ", "S", "c", "o", "r", "e", ":", " ",
                "8", "5", "0", "0">>
    /\ The(parsed).value = Whole(85)

(***************************************************************************)
(* prompts: PromptContext, the strategy builders and PromptOrchestrator.   *)
(* The fixed wording of each template is stood for by its opening words;   *)
(* the embedded framework name, document and previous analysis are kept.   *)
(***************************************************************************)
\* the system prompt (its opening words stand for the fixed text)
StrSystemPrompt ==
    <<"Y", "o", "u", " ", "a", "r", "e", " ", "a", "n", " ", "e", "x",
      "p", "e", "r", "t", " ", "c", "o", "m", "p", "l", "i", "a",
      "n", "c", "e", " ", "a", "n", "a", "l", "y", "s", "t">>

\* ChainOfThoughtPromptBuilder: fixed text before and after the framework name
StrCotBefore ==
    <<"A", "n", "a", "l", "y", "z", "e", " ", "t", "h", "e", " ", "f",
      "o", "l", "l", "o", "w", "i", "n", "g", " ", "p", "o", "l",
      "i", "c", "y", " ", "d", "o", "c", "u", "m", "e", "n", "t",
      " ", "f", "o", "r", " ", "c", "o", "m", "p", "l", "i", "a",
      "n", "c", "e", " ", "w", "i", "t", "h", " ">>

StrCotAfter ==
    <<".", "\n", "\n", "U", "s", "e", " ", "s", "t", "e", "p", "-", "b",
      "y", "-", "s", "t", "e", "p", " ", "r", "e", "a", "s", "o",
      "n", "i", "n", "g">>

\* ... and after the document
StrCotTail ==
    <<"R", "e", "a", "s", "o", "n", "i", "n", "g", " ", "P", "r", "o",
      "c", "e", "s", "s", ":">>

\* ReActPromptBuilder
StrReactBefore ==
    <<"A", "n", "a", "l", "y", "z", "e", " ", "t", "h", "i", "s", " ",
      "p", "o", "l", "i", "c", "y", " ", "d", "o", "c", "u", "m",
      "e", "n", "t", " ", "f", "o", "r", " ">>

StrReactAfter ==
    <<" ", "c", "o", "m", "p", "l", "i", "a", "n", "c", "e", " ", "u",
      "s", "i", "n", "g", " ", "t", "h", "e", " ", "R", "e", "A",
      "c", "t", " ", "r", "e", "a", "s", "o", "n", "i", "n", "g",
      " ", "p", "a", "t", "t", "e", "r", "n", ".">>

StrReactTail ==
    <<"A", "v", "a", "i", "l", "a", "b", "l", "e", " ", "A", "c", "t",
      "i", "o", "n", "s", ":">>

\* TreeOfThoughtsPromptBuilder
StrTotBefore ==
    <<"A", "n", "a", "l", "y", "z", "e", " ", "t", "h", "i", "s", " ",
      "d", "o", "c", "u", "m", "e", "n", "t", " ", "f", "o", "r", " ">>

StrTotAfter ==
    <<" ", "c", "o", "m", "p", "l", "i", "a", "n", "c", "e", " ", "b",
      "y", " ", "e", "x", "p", "l", "o", "r", "i", "n", "g", " ",
      "m", "u", "l", "t", "i", "p", "l", "e", " ", "i", "n", "t",
      "e", "r", "p", "r", "e", "t", "a", "t", "i", "o", "n", " ",
      "p", "a", "t", "h", "s", ".">>

StrTotTail ==
    <<"R", "a", "t", "e", " ", "e", "a", "c", "h", " ", "i", "n", "t",
      "e", "r", "p", "r", "e", "t", "a", "t", "i", "o", "n", " ",
      "p", "a", "t", "h", " ", "o", "n", ":">>

\* SelfCorrectionPromptBuilder
StrReview ==
    <<"R", "e", "v", "i", "e", "w", " ", "a", "n", "d", " ", "i", "m",
      "p", "r", "o", "v", "e", " ", "t", "h", "e", " ", "f", "o",
      "l", "l", "o", "w", "i", "n", "g", " ", "c", "o", "m", "p",
      "l", "i", "a", "n", "c", "e", " ", "a", "n", "a", "l", "y",
      "s", "i", "s", ".">>

StrPreviousOpen ==
    <<"\n", "\n", "P", "r", "e", "v", "i", "o", "u", "s", " ", "A", "n",
      "a", "l", "y", "s", "i", "s", ":", "\n", "-", "-", "-", "\n">>

StrReviewTail ==
    <<"R", "e", "v", "i", "e", "w", " ", "C", "r", "i", "t", "e", "r",
      "i", "a", ":">>

\* the frame around an embedded text
StrDocumentOpen ==
    <<"\n", "\n", "D", "o", "c", "u", "m", "e", "n", "t", ":", "\n", "-",
      "-", "-", "\n">>

StrBlockClose ==
    <<"\n", "-", "-", "-", "\n", "\n">>

\* Framework values
StrIso27001 ==
    <<"I", "S", "O", " ", "2", "7", "0", "0", "1">>

StrGdpr ==
    <<"G", "D", "P", "R">>

StrSoc2 ==
    <<"S", "O", "C", "2">>

StrHipaa ==
    <<"H", "I", "P", "A", "A">>

\* prompts.ReasoningStrategy
ReasoningStrategy == {"CHAIN_OF_THOUGHT", "REACT", "SELF_CORRECTION", "TREE_OF_THOUGHTS"}

\* Framework.value
FrameworkValue(fw) ==
    IF fw = "ISO27001" THEN StrIso27001
    ELSE IF fw = "GDPR" THEN StrGdpr
    ELSE IF fw = "SOC2" THEN StrSoc2
    ELSE StrHipaa

PromptContext(document_text, fw, strategy, previous_analysis) ==
    [document_text |-> document_text, framework |-> fw, strategy |-> strategy,
     previous_analysis |-> previous_analysis]

\* the outcome of a call: a returned value, or a raised exception and no value
Return(v) == [raised |-> "none", value |-> Some(v)]

Raise(e) == [raised |-> e, value |-> None]

\* SystemPromptBuilder.build_compliance_analyst via build_system_prompt
build_system_prompt == StrSystemPrompt

cot_build(ctx) ==
    StrCotBefore \o FrameworkValue(ctx.framework) \o StrCotAfter
        \o StrDocumentOpen \o ctx.document_text \o StrBlockClose \o StrCotTail

react_build(ctx) ==
    StrReactBefore \o FrameworkValue(ctx.framework) \o StrReactAfter
        \o StrDocumentOpen \o ctx.document_text \o StrBlockClose \o StrReactTail

tot_build(ctx) ==
    StrTotBefore \o FrameworkValue(ctx.framework) \o StrTotAfter
        \o StrDocumentOpen \o ctx.document_text \o StrBlockClose \o StrTotTail

\* Python truthiness of an Optional[str]
Truthy(opt) == opt # None /\ The(opt) # <<>>

\* mutant: only an absent previous_analysis is rejected, an empty one passes
self_correction_build_none_only(ctx) ==
    IF ctx.previous_analysis = None
    THEN Raise("ValueError")
    ELSE Return(StrReview \o StrPreviousOpen \o The(ctx.previous_analysis)
                    \o StrBlockClose \o StrReviewTail)

\* SelfCorrectionPromptBuilder.build
self_correction_build(ctx) ==
    IF ~Truthy(ctx.previous_analysis)
    THEN Raise("ValueError")
    ELSE Return(StrReview \o StrPreviousOpen \o The(ctx.previous_analysis)
                    \o StrBlockClose \o StrReviewTail)

\* PromptOrchestrator.build_analysis_prompt
build_analysis_prompt(ctx) ==
    IF ctx.strategy = "CHAIN_OF_THOUGHT" THEN Return(cot_build(ctx))
    ELSE IF ctx.strategy = "REACT" THEN Return(react_build(ctx))
    ELSE IF ctx.strategy = "SELF_CORRECTION" THEN self_correction_build(ctx)
    ELSE IF ctx.strategy = "TREE_OF_THOUGHTS" THEN Return(tot_build(ctx))
    ELSE Raise("ValueError")

\* mutant: a failed analysis prompt is swallowed and an empty one is paired
build_complete_prompt_swallow(ctx) ==
    LET system_prompt == build_system_prompt
        analysis_prompt == build_analysis_prompt(ctx)
    IN  IF analysis_prompt.raised # "none"
        THEN Return(<<system_prompt, <<>> >>)
        ELSE Return(<<system_prompt, The(analysis_prompt.value)>>)

\* PromptOrchestrator.build_complete_prompt
build_complete_prompt(ctx) ==
    LET system_prompt == build_system_prompt
        analysis_prompt == build_analysis_prompt(ctx)
    IN  IF analysis_prompt.raised # "none"
        THEN Raise(analysis_prompt.raised)
        ELSE Return(<<system_prompt, The(analysis_prompt.value)>>)

(***************************************************************************)
(* Calls of the orchestrator on bounded contexts.                          *)
(***************************************************************************)
\* a strategy value outside the enumeration reaches the final else
StrategyInputs == ReasoningStrategy \cup {"UNKNOWN"}

DocumentInputs == {<<>>, <<"d", "o", "c">>}

PreviousInputs == {None} \cup {Some(t) : t \in SeqUpTo({" ", "a"}, MaxPreviousLen)}

Built(op, outcome) ==
    Some([op |-> op, raised |-> outcome.raised, value |-> outcome.value])

\* a call of PromptOrchestrator.build_analysis_prompt(context)
BuildAnalysisPrompt ==
    /\ built = None
    /\ built' = Built("build_analysis_prompt", build_analysis_prompt(The(context)))
    /\ UNCHANGED context
    /\ UNCHANGED notPromptVars

\* a call of PromptOrchestrator.build_complete_prompt(context)
BuildCompletePrompt ==
    /\ built = None
    /\ built' = Built("build_complete_prompt", build_complete_prompt(The(context)))
    /\ UNCHANGED context
    /\ UNCHANGED notPromptVars

InitPrompt ==
    /\ IdleExcept("prompt")
    /\ \E d \in DocumentInputs, fw \in Framework, st \in StrategyInputs, prev \in PreviousInputs :
           context = Some(PromptContext(d, fw, st, prev))
    /\ built = None

NextPrompt ==
    \/ BuildAnalysisPrompt
    \/ BuildCompletePrompt

SpecPrompt == InitPrompt /\ [][NextPrompt]_vars

\* the build method `op` has been called
BuiltBy(op) == built # None /\ The(built).op = op

\* the previous analysis of the context is absent or the empty string
NoPrevious == The(context).previous_analysis \in {None, Some(<<>>)}

(***************************************************************************)
(* C9: for strategy SELF_CORRECTION, build_analysis_prompt raises          *)
(* ValueError and returns no prompt exactly when previous_analysis is None *)
(* or the empty string; for every non-empty previous_analysis it returns a *)
(* prompt, which embeds that analysis.                                     *)
(***************************************************************************)
C9_SelfCorrectionNeedsPrevious ==
    (BuiltBy("build_analysis_prompt") /\ The(context).strategy = "SELF_CORRECTION") =>
        /\ NoPrevious =>
               /\ The(built).raised = "ValueError"
               /\ The(built).value = None
        /\ ~NoPrevious =>
               /\ The(built).raised = "none"
               /\ The(built).value # None
               /\ Contains(The(The(built).value), The(The(context).previous_analysis))

\* the empty string as previous analysis is rejected
C9_Witness ==
    /\ BuiltBy("build_analysis_prompt")
    /\ The(context).strategy = "SELF_CORRECTION"
    /\ The(context).previous_analysis = Some(<<>>)
    /\ The(built).raised = "ValueError"

(***************************************************************************)
(* C10: build_complete_prompt returns a pair of two non-empty strings, or  *)
(* raises and returns nothing; it fails exactly when building the analysis *)
(* prompt fails.                                                           *)
(***************************************************************************)
C10_CompletePromptPairOrNothing ==
    BuiltBy("build_complete_prompt") =>
        LET fails == \/ The(context).strategy \notin ReasoningStrategy
                     \/ The(context).strategy = "SELF_CORRECTION" /\ NoPrevious
        IN  /\ fails =>
                /\ The(built).raised = "ValueError"
                /\ The(built).value = None
            /\ ~fails =>
                /\ The(built).raised = "none"
                /\ The(built).value # None
                /\ Len(The(The(built).value)) = 2
                /\ The(The(built).value)[1] # <<>>
                /\ The(The(built).value)[2] # <<>>

\* self-correction without a previous analysis: no pair at all is returned
C10_Witness ==
    /\ BuiltBy("build_complete_prompt")
    /\ The(context).strategy = "SELF_CORRECTION"
    /\ The(context).previous_analysis = None
    /\ The(built).raised = "ValueError"
    /\ The(built).value = None

(***************************************************************************)
(* retriever.retrieve_with_scores                                          *)
(***************************************************************************)
\* the default of the parameter k
DefaultK == 4

\* the k that reaches the function body: the caller's, or the default
EffectiveK(k) == IF k = None THEN DefaultK ELSE The(k)

Reverse(s) == [i \in 1..Len(s) |-> s[Len(s) + 1 - i]]

\* mutant: the pairs are returned best score last
retrieve_with_scores_reversed(index_result) == Reverse(index_result)

\* the result of vectorstore.similarity_search_with_score(query, k=k), as is
retrieve_with_scores(index_result) == index_result

\* the result of vectorstore.similarity_search(query, k=k), as is
retrieve(index_result) == index_result

\* what the vector index can return: (text, source, score in hundredths)
EvidenceItems ==
    { [text |-> <<>>, source |-> 1, score |-> 10],
      [text |-> <<" ", "\n">>, source |-> 2, score |-> 26],
      [text |-> <<" ", "a", " ">>, source |-> 1, score |-> 50],
      [text |-> <<"b">>, source |-> 2, score |-> 10] }

\* the queries of the callers
Queries == {"access control", "encryption"}

\* the errors the backing index raises (transport, authorisation)
IndexErrors == {"ConnectionError", "AuthorizationException"}

\* the vector index: its ranking of the entries for a query
Ranking(index, query) ==
    IF query = "access control" THEN index ELSE Reverse(index)

\* vectorstore.similarity_search_with_score(query, k=k): the k best (document, score)
similarity_search_with_score(index, query, k) ==
    SubSeq(Ranking(index, query), 1, Min(k, Len(index)))

\* vectorstore.similarity_search(query, k=k): the k best documents
similarity_search(index, query, k) ==
    LET best == similarity_search_with_score(index, query, k)
    IN  [i \in 1..Len(best) |-> [text |-> best[i].text, source |-> best[i].source]]

\* a call received by the index, with what the index answered
IndexCall(method, query, k, outcome) ==
    [method |-> method, query |-> query, k |-> k, outcome |-> outcome]

Retrieved(op, outcome) ==
    Some([op |-> op, raised |-> outcome.raised, value |-> outcome.value])

\* a call of retrieve(vectorstore, query, k)
Retrieve ==
    /\ rtOutcome = None
    /\ rtQuery \in Queries
    /\ LET k == EffectiveK(rtK)
       IN  \E answer \in {Return(similarity_search(rtIndex, rtQuery, k))}
                           \cup {Raise(e) : e \in IndexErrors} :
               /\ rtCalls' = Append(rtCalls, IndexCall("similarity_search", rtQuery, k, answer))
               /\ rtOutcome' = Retrieved("retrieve",
                                   IF answer.raised = "none"
                                   THEN Return(retrieve(The(answer.value)))
                                   ELSE answer)
    /\ UNCHANGED <<rtIndex, rtQuery, rtK>>
    /\ UNCHANGED notRetrieverVars

\* a call of retrieve_with_scores(vectorstore, query, k)
RetrieveWithScores ==
    /\ rtOutcome = None
    /\ rtQuery \in Queries
    /\ LET k == EffectiveK(rtK)
       IN  \E answer \in {Return(similarity_search_with_score(rtIndex, rtQuery, k))}
                           \cup {Raise(e) : e \in IndexErrors} :
               /\ rtCalls' = Append(rtCalls,
                                    IndexCall("similarity_search_with_score", rtQuery, k, answer))
               /\ rtOutcome' = Retrieved("retrieve_with_scores",
                                   IF answer.raised = "none"
                                   THEN Return(retrieve_with_scores(The(answer.value)))
                                   ELSE answer)
    /\ UNCHANGED <<rtIndex, rtQuery, rtK>>
    /\ UNCHANGED notRetrieverVars

InitRetriever ==
    /\ IdleExcept("retriever")
    /\ rtIndex \in SeqUpTo(EvidenceItems, MaxDocs)
    /\ rtQuery \in Queries
    /\ rtK \in {None} \cup {Some(k) : k \in 0..MaxK}
    /\ rtCalls = <<>>
    /\ rtOutcome = None

NextRetriever ==
    \/ Retrieve
    \/ RetrieveWithScores

SpecRetriever == InitRetriever /\ [][NextRetriever]_vars

(***************************************************************************)
(* C19: when retrieve or retrieve_with_scores has returned or raised, the  *)
(* index has received exactly one call, the search method of the function  *)
(* called, with the caller's query and k (4 when the caller gave none);    *)
(* what the function returned is what the index returned, in the same      *)
(* order, and what it raised is what the index raised; no step changes the *)
(* index.                                                                  *)
(***************************************************************************)
C19_Answered ==
    rtOutcome # None =>
        LET o == The(rtOutcome)
        IN  /\ Len(rtCalls) = 1
            /\ rtCalls[1].method = (IF o.op = "retrieve" THEN "similarity_search"
                                    ELSE "similarity_search_with_score")
            /\ rtCalls[1].query = rtQuery
            /\ rtCalls[1].k = (IF rtK = None THEN 4 ELSE The(rtK))
            /\ o.raised = rtCalls[1].outcome.raised
            /\ o.value = rtCalls[1].outcome.value

C19_RetrieverPassThrough ==
    /\ []C19_Answered
    /\ [][rtIndex' = rtIndex]_vars

\* retrieve_with_scores returned two ranked pairs out of three, unchanged
C19_Witness ==
    /\ rtOutcome # None
    /\ The(rtOutcome).op = "retrieve_with_scores"
    /\ The(rtOutcome).raised = "none"
    /\ Len(rtIndex) = 3
    /\ rtK = Some(2)
    /\ Len(The(The(rtOutcome).value)) = 2
    /\ The(The(rtOutcome).value)[1].score # The(The(rtOutcome).value)[2].score

(***************************************************************************)
(* The per-requirement Compliance Agent: ComplianceAgent.analyze(          *)
(* vectorstore, requirement, policy_excerpt, framework), which returns a   *)
(* ComplianceFinding.                                                      *)
(***************************************************************************)
\* ComplianceAgent._infer_severity
infer_severity(status) ==
    IF status = "NON_COMPLIANT" THEN "HIGH"
    ELSE IF status = "PARTIAL" THEN "MEDIUM"
    ELSE "LOW"

\* the ascending list of the members of a finite set of integers
RECURSIVE SortedList(_)
SortedList(S) ==
    IF S = {} THEN <<>>
    ELSE LET m == CHOOSE x \in S : \A y \in S : x <= y
         IN  <<m>> \o SortedList(S \ {m})

\* the de-duplicated sorted source identifiers of the evidence
SourcesOf(evidence) == SortedList({evidence[i].source : i \in 1..Len(evidence)})

TextsOf(evidence) == [i \in 1..Len(evidence) |-> evidence[i].text]

ScoresOf(evidence) == [i \in 1..Len(evidence) |-> evidence[i].score]

Finding(status, analysis, evidence, a) ==
    [status |-> status,
     analysis |-> analysis,
     severity |-> infer_severity(status),
     sources |-> SourcesOf(evidence),
     confidence |-> a.confidence,
     retrieval_notes |-> a.notes]

\* mutant: the agent goes on to the model whatever the assessment says
NeverShortCircuits(a) == FALSE

\* step 2: insufficient evidence ends the analysis without a model call
ShortCircuits(a) == ~a.sufficient

\* what the language model can answer
ModelReplies ==
    { <<"T", "h", "e", " ", "p", "o", "l", "i", "c", "y", " ", "i", "s", " ", "C", "o", "m", "p", "l", "i", "a", "n", "t", ".">>,
      <<"T", "h", "i", "s", " ", "c", "o", "n", "t", "r", "o", "l", " ", "i", "s", " ", "N", "o", "n", "-", "c", "o", "m", "p", "l", "i", "a", "n", "t", ".">>,
      <<"P", "A", "R", "T", "I", "A", "L", "l", "y", " ", "c", "o", "m", "p", "l", "i", "a", "n", "t">>,
      <<"I", "n", "s", "u", "f", "f", "i", "c", "i", "e", "n", "t", " ", "e", "v", "i", "d", "e", "n", "c", "e", " ", "a", "v", "a", "i", "l", "a", "b", "l", "e", ".">>,
      <<"o", "k", ".">> }

\* step 1: retrieve the evidence for the requirement
AgentRetrieve ==
    /\ agPc = "start"
    /\ \E result \in SeqUpTo(EvidenceItems, MaxDocs) :
           agEvidence' = retrieve_with_scores(result)
    /\ agPc' = "retrieved"
    /\ agTrace' = Append(agTrace, "retrieve")
    /\ UNCHANGED <<agStrategy, agAssessment, agReply, modelCalls, agFinding>>
    /\ UNCHANGED notAgentVars

\* steps 2 and 3: assess the evidence; emit the terminal finding or build the prompt
AgentAssess ==
    /\ agPc = "retrieved"
    /\ LET a == assess_retrieval_quality(TextsOf(agEvidence), ScoresOf(agEvidence))
       IN  /\ agAssessment' = Some(a)
           /\ IF ShortCircuits(a)
              THEN /\ agFinding' = Some(Finding("INSUFFICIENT_EVIDENCE", <<>>, agEvidence, a))
                   /\ agPc' = "done"
                   /\ agTrace' = agTrace \o <<"assess", "emit">>
              ELSE /\ agFinding' = agFinding
                   /\ agPc' = "prompted"
                   /\ agTrace' = agTrace \o <<"assess", "build_prompt">>
    /\ UNCHANGED <<agStrategy, agEvidence, agReply, modelCalls>>
    /\ UNCHANGED notAgentVars

\* mutant: every strategy gets the refinement pass
AlwaysRefines(strategy) == TRUE

\* step 5: only SELF_CORRECTION issues the second call
NeedsRefinement(strategy) == strategy = "SELF_CORRECTION"

\* step 4: the call of the language model
AgentCallModel ==
    /\ agPc = "prompted"
    /\ modelCalls' = modelCalls + 1
    /\ \E reply \in ModelReplies : agReply' = Some(reply)
    /\ agPc' = IF NeedsRefinement(agStrategy) THEN "refine" ELSE "infer"
    /\ agTrace' = Append(agTrace, "call_model")
    /\ UNCHANGED <<agStrategy, agEvidence, agAssessment, agFinding>>
    /\ UNCHANGED notAgentVars

\* step 5: the single refinement call, made with the initial analysis
AgentRefine ==
    /\ agPc = "refine"
    /\ modelCalls' = modelCalls + 1
    /\ \E reply \in ModelReplies : agReply' = Some(reply)
    /\ agPc' = "infer"
    /\ agTrace' = agTrace \o <<"build_prompt", "call_model">>
    /\ UNCHANGED <<agStrategy, agEvidence, agAssessment, agFinding>>
    /\ UNCHANGED notAgentVars

\* steps 6 and 7: infer status and severity, emit the finding
AgentEmit ==
    /\ agPc = "infer"
    /\ agFinding' = Some(Finding(infer_status(The(agReply)), The(agReply),
                                 agEvidence, The(agAssessment)))
    /\ agPc' = "done"
    /\ agTrace' = agTrace \o <<"infer_status", "emit">>
    /\ UNCHANGED <<agStrategy, agEvidence, agAssessment, agReply, modelCalls>>
    /\ UNCHANGED notAgentVars

InitAgent ==
    /\ IdleExcept("agent")
    /\ agPc = "start"
    /\ agStrategy \in ReasoningStrategy
    /\ agEvidence = <<>>
    /\ agAssessment = None
    /\ agReply = None
    /\ modelCalls = 0
    /\ agFinding = None
    /\ agTrace = <<>>

NextAgent ==
    \/ AgentRetrieve
    \/ AgentAssess
    \/ AgentCallModel
    \/ AgentRefine
    \/ AgentEmit

SpecAgent == InitAgent /\ [][NextAgent]_vars

IsPrefix(s, t) == Len(s) <= Len(t) /\ s = SubSeq(t, 1, Len(s))

InsufficientOrder == <<"retrieve", "assess", "emit">>

OneCallOrder ==
    <<"retrieve", "assess", "build_prompt", "call_model", "infer_status", "emit">>

TwoCallOrder ==
    <<"retrieve", "assess", "build_prompt", "call_model", "build_prompt", "call_model",
      "infer_status", "emit">>

StrColonSpace == <<":", " ">>

\* ResponseParser._calculate_statistics
calculate_statistics(fs) ==
    [total |-> Len(fs),
     compliant |-> Cardinality({i \in 1..Len(fs) : fs[i].status = "COMPLIANT"}),
     partial |-> Cardinality({i \in 1..Len(fs) : fs[i].status = "PARTIAL"}),
     non_compliant |-> Cardinality({i \in 1..Len(fs) : fs[i].status = "NON_COMPLIANT"})]

\* ResponseParser._extract_critical_gaps
RECURSIVE extract_critical_gaps(_)
extract_critical_gaps(fs) ==
    IF fs = <<>> THEN <<>>
    ELSE (IF Head(fs).severity = "CRITICAL" /\ Head(fs).status = "NON_COMPLIANT"
          THEN <<Head(fs).control_id \o StrColonSpace \o Head(fs).gap_description>>
          ELSE <<>>)
         \o extract_critical_gaps(Tail(fs))

\* ResponseParser._extract_priority_recommendations
RECURSIVE extract_priority_recommendations(_)
extract_priority_recommendations(fs) ==
    IF fs = <<>> THEN <<>>
    ELSE (IF /\ Head(fs).severity \in {"CRITICAL", "HIGH"}
             /\ Head(fs).status \in {"NON_COMPLIANT", "PARTIAL"}
             /\ Head(fs).recommendation # <<>>
          THEN <<Head(fs).recommendation>>
          ELSE <<>>)
         \o extract_priority_recommendations(Tail(fs))

\* ResponseParser.parse_compliance_report; document_name is handed through and
\* analysis_date is the clock's reading, neither is kept here
parse_compliance_report(response_text, fw, strategy) ==
    LET fs == extract_findings(response_text)
        stats == calculate_statistics(fs)
    IN  [framework |-> fw,
         findings |-> fs,
         compliance_score |-> extract_score(response_text),
         reasoning_trace |-> response_text,
         strategy_used |-> strategy,
         total_controls_evaluated |-> stats.total,
         compliant_count |-> stats.compliant,
         partial_count |-> stats.partial,
         non_compliant_count |-> stats.non_compliant,
         critical_gaps |-> extract_critical_gaps(fs),
         high_priority_recommendations |-> extract_priority_recommendations(fs)]

AnalysisResult(success, report, error_message, raw_response) ==
    [success |-> success, report |-> report, error_message |-> error_message,
     raw_response |-> raw_response]

\* mutant: the except branch returns the error in a result marked successful
FailedButMarkedSuccessful(e) == AnalysisResult(TRUE, None, Some(e), None)

\* the except branch of analyze and analyze_with_self_correction
Failed(e) == AnalysisResult(FALSE, None, Some(e), None)

\* the success return of analyze and analyze_with_self_correction; a content
\* that is no string makes the parser's text.split raise AttributeError
Parsed(content, fw, strategy) ==
    IF content = None
    THEN Failed("AttributeError")
    ELSE AnalysisResult(TRUE, Some(parse_compliance_report(The(content), fw, strategy)),
                        None, content)

\* OpenAIClient.complete: the content of the first choice, or the logged
\* exception raised again
complete(answer) ==
    IF answer.raised # "none" THEN Raise(answer.raised) ELSE Return(The(answer.value))

\* mutant: the initial context carries the document as the previous analysis
execute_analysis_prompts_with_previous(document_text, fw, strategy) ==
    build_complete_prompt(PromptContext(document_text, fw, strategy, Some(document_text)))

\* the prompts of ComplianceAgent._execute_analysis
execute_analysis_prompts(document_text, fw, strategy) ==
    build_complete_prompt(PromptContext(document_text, fw, strategy, None))

\* the prompts of ComplianceAgent._apply_self_correction
apply_self_correction_prompts(initial_analysis) ==
    LET ctx == PromptContext(<<>>, "ISO27001", "SELF_CORRECTION", initial_analysis)
        system_prompt == build_system_prompt
        correction_prompt == build_analysis_prompt(ctx)
    IN  IF correction_prompt.raised # "none"
        THEN Raise(correction_prompt.raised)
        ELSE Return(<<system_prompt, The(correction_prompt.value)>>)

\* the methods that run an analysis: those of ComplianceAgent, and
\* MultiStrategyComplianceAgent.analyze_with_strategy, which calls analyze on
\* the agent it holds for the strategy
AgentMethods == {"analyze", "analyze_with_self_correction", "analyze_with_strategy"}

\* message contents the backend returns: texts, the empty text, no content
ModelContents ==
    { None,
      Some(<<>>),
      Some(<<"C", "o", "n", "t", "r", "o", "l", " ", "I", "D", ":",
                 " ", "A", ".", "9", "\n", "S", "t", "a", "t", "u", "s",
                 ":", " ", "C", "o", "m", "p", "l", "i", "a", "n", "t",
                 "\n", "S", "e", "v", "e", "r", "i", "t", "y", ":", " ",
                 "L", "o", "w", "\n", "F", "i", "n", "a", "l", " ", "S",
                 "c", "o", "r", "e", ":", " ", "9", "0", "\n">>),
      Some(<<"#", "#", " ", "L", "o", "g", "g", "i", "n", "g", "\n",
                 "C", "o", "n", "t", "r", "o", "l", " ", "I", "D", ":",
                 " ", "A", ".", "1", "2", "\n", "S", "t", "a", "t", "u",
                 "s", ":", " ", "N", "o", "n", "-", "c", "o", "m", "p",
                 "l", "i", "a", "n", "t", "\n", "S", "e", "v", "e", "r",
                 "i", "t", "y", ":", " ", "C", "r", "i", "t", "i", "c",
                 "a", "l", "\n", "G", "a", "p", ":", " ", "n", "o", " ",
                 "l", "o", "g", "s", "\n", "R", "e", "c", "o", "m", "m",
                 "e", "n", "d", "a", "t", "i", "o", "n", ":", " ", "k",
                 "e", "e", "p", " ", "l", "o", "g", "s", "\n", "O", "v",
                 "e", "r", "a", "l", "l", " ", "s", "c", "o", "r", "e",
                 ":", " ", "4", "0">>),
      Some(<<"I", " ", "c", "a", "n", "n", "o", "t", " ", "h", "e",
                 "l", "p", ".">>) }

\* the exceptions of a failed model call (backend error, timeout, rate limit)
ModelErrors == {"APITimeoutError", "RateLimitError"}

\* what client.chat.completions.create can do
ModelAnswers == {Return(c) : c \in ModelContents} \cup {Raise(e) : e \in ModelErrors}

ModelCall(prompts, answer) ==
    [system_prompt |-> prompts[1], user_prompt |-> prompts[2], answer |-> answer]

\* _execute_analysis: build the prompts, call the model once
DocExecuteAnalysis ==
    /\ daPc = "start"
    /\ LET built_prompts == execute_analysis_prompts(daDocument, daFramework, daStrategy)
       IN  IF built_prompts.raised # "none"
           THEN /\ daResult' = Some(Failed(built_prompts.raised))
                /\ daPc' = "done"
                /\ UNCHANGED <<daCalls, daText>>
           ELSE \E answer \in ModelAnswers :
                    LET response == complete(answer)
                    IN  /\ daCalls' = Append(daCalls,
                                             ModelCall(The(built_prompts.value), answer))
                        /\ IF response.raised # "none"
                           THEN /\ daResult' = Some(Failed(response.raised))
                                /\ daPc' = "done"
                                /\ UNCHANGED daText
                           ELSE /\ daText' = response.value
                                /\ daPc' = IF daMethod = "analyze_with_self_correction"
                                           THEN "correct" ELSE "parse"
                                /\ UNCHANGED daResult
    /\ UNCHANGED <<daStrategy, daMethod, daDocument, daFramework, daPrev>>
    /\ UNCHANGED notDocAgentVars

\* _apply_self_correction: build the correction prompt from the initial
\* analysis, call the model once
DocApplySelfCorrection ==
    /\ daPc = "correct"
    /\ LET built_prompts == apply_self_correction_prompts(The(daText))
       IN  IF built_prompts.raised # "none"
           THEN /\ daResult' = Some(Failed(built_prompts.raised))
                /\ daPc' = "done"
                /\ UNCHANGED <<daCalls, daText>>
           ELSE \E answer \in ModelAnswers :
                    LET response == complete(answer)
                    IN  /\ daCalls' = Append(daCalls,
                                             ModelCall(The(built_prompts.value), answer))
                        /\ IF response.raised # "none"
                           THEN /\ daResult' = Some(Failed(response.raised))
                                /\ daPc' = "done"
                                /\ UNCHANGED daText
                           ELSE /\ daText' = response.value
                                /\ daPc' = "parse"
                                /\ UNCHANGED daResult
    /\ UNCHANGED <<daStrategy, daMethod, daDocument, daFramework, daPrev>>
    /\ UNCHANGED notDocAgentVars

\* parse_compliance_report on the latest text and the return of the result
DocParse ==
    /\ daPc = "parse"
    /\ daResult' = Some(Parsed(The(daText), daFramework,
                               IF daMethod = "analyze_with_self_correction"
                               THEN "SELF_CORRECTION" ELSE daStrategy))
    /\ daPc' = "done"
    /\ UNCHANGED <<daStrategy, daMethod, daDocument, daFramework, daCalls, daText, daPrev>>
    /\ UNCHANGED notDocAgentVars

\* the same agent is asked again about the same document, by either method
DocRunAgain ==
    /\ daPc = "done"
    /\ daPrev = None
    /\ daPrev' = Some([text |-> daText, result |-> The(daResult)])
    /\ daMethod' \in AgentMethods
    /\ daPc' = "start"
    /\ daCalls' = <<>>
    /\ daText' = None
    /\ daResult' = None
    /\ UNCHANGED <<daStrategy, daDocument, daFramework>>
    /\ UNCHANGED notDocAgentVars

InitDocAgent ==
    /\ IdleExcept("docagent")
    /\ daPc = "start"
    /\ daStrategy \in ReasoningStrategy
    /\ daMethod \in AgentMethods
    /\ daDocument \in DocumentInputs
    /\ daFramework \in Framework
    /\ daCalls = <<>>
    /\ daText = None
    /\ daResult = None
    /\ daPrev = None

NextDocAgent ==
    \/ DocExecuteAnalysis
    \/ DocApplySelfCorrection
    \/ DocParse
    \/ DocRunAgain

SpecDocAgent == InitDocAgent /\ [][NextDocAgent]_vars

(***************************************************************************)
(* C11: when an analysis by an agent whose strategy is SELF_CORRECTION has *)
(* ended, exactly two model calls have been made, the prompt of the second *)
(* holds the text returned by the first, and the result was parsed from    *)
(* the text returned by the second.                                        *)
(***************************************************************************)
C11_SelfCorrectionTwoCalls ==
    (daStrategy = "SELF_CORRECTION" /\ daPc = "done") =>
        /\ Len(daCalls) = 2
        /\ daCalls[1].answer.raised = "none"
        /\ daCalls[2].answer.raised = "none"
        /\ Contains(daCalls[2].user_prompt, The(The(daCalls[1].answer.value)))
        /\ The(daResult).success
        /\ The(daResult).raw_response = The(daCalls[2].answer.value)

(***************************************************************************)
(* C16: when an analysis in which a model call failed has ended, its       *)
(* result carries a report whose findings all have status                  *)
(* INSUFFICIENT_EVIDENCE, and there is at least one.                       *)
(***************************************************************************)
C16_FailedCallEndsInsufficient ==
    (daPc = "done" /\ \E i \in 1..Len(daCalls) : daCalls[i].answer.raised # "none") =>
        /\ The(daResult).report # None
        /\ The(The(daResult).report).findings # <<>>
        /\ \A i \in 1..Len(The(The(daResult).report).findings) :
               The(The(daResult).report).findings[i].status = "INSUFFICIENT_EVIDENCE"

MaxMinLength == 3

\* the number of fragments a policy text is put together from
MaxPolicyTokens == 4

\* the default of the min_length parameter
DefaultMinLength == 80

\* the paragraph boundary policy_text is split on
ParagraphBreak == <<"\n", "\n">>

\* str.split(sep) for a separator of any length: scanning from the left
RECURSIVE SplitOnString(_, _)
SplitOnString(t, sep) ==
    LET hits == {i \in 1..(Len(t) - Len(sep) + 1) : SubSeq(t, i, i + Len(sep) - 1) = sep}
    IN  IF hits = {} THEN <<t>>
        ELSE LET k == CHOOSE i \in hits : \A j \in hits : i <= j
             IN  <<SubSeq(t, 1, k - 1)>>
                 \o SplitOnString(SubSeq(t, k + Len(sep), Len(t)), sep)

\* mutant: the length of the untrimmed section is compared with min_length
RECURSIVE KeepSectionsUntrimmed(_, _)
KeepSectionsUntrimmed(raw_sections, min_length) ==
    IF raw_sections = <<>> THEN <<>>
    ELSE (IF Len(Head(raw_sections)) >= min_length
          THEN <<Strip(Head(raw_sections))>>
          ELSE <<>>)
         \o KeepSectionsUntrimmed(Tail(raw_sections), min_length)

\* the list comprehension of split_policy over the raw sections
RECURSIVE KeepSections(_, _)
KeepSections(raw_sections, min_length) ==
    IF raw_sections = <<>> THEN <<>>
    ELSE (IF Len(Strip(Head(raw_sections))) >= min_length
          THEN <<Strip(Head(raw_sections))>>
          ELSE <<>>)
         \o KeepSections(Tail(raw_sections), min_length)

split_policy(policy_text, min_length) ==
    KeepSections(SplitOnString(policy_text, ParagraphBreak), min_length)

(***************************************************************************)
(* split_policy on policy texts put together from fragments.               *)
(***************************************************************************)
PolicyFragments ==
    { <<"a">>, <<"b", "c">>, <<" ">>, <<"\n">>, <<"\n", "\n">>, <<"\t", "d">> }

PolicyTexts == {Concat(ts) : ts \in SeqUpTo(PolicyFragments, MaxPolicyTokens)}

MinLengths == (0..MaxMinLength) \cup {DefaultMinLength}

\* a call of split_policy(text, min_length)
SplitPolicy ==
    /\ parsed = None
    /\ \E min_length \in MinLengths :
           parsed' = Returned("split_policy",
                              [min_length |-> min_length,
                               sections |-> split_policy(text, min_length)])
    /\ UNCHANGED text
    /\ UNCHANGED notParserVars

InitSplit ==
    /\ IdleExcept("parser")
    /\ text \in PolicyTexts
    /\ parsed = None

NextSplit ==
    \/ SplitPolicy

SpecSplit == InitSplit /\ [][NextSplit]_vars

\* the pieces of the text between paragraph boundaries
Paragraphs == SplitOnString(text, ParagraphBreak)

\* the positions of the paragraphs that are long enough once trimmed
LongEnough(min_length) ==
    {i \in 1..Len(Paragraphs) : Len(Strip(Paragraphs[i])) >= min_length}

\* the number of long-enough paragraphs up to position i
RankIn(S, i) == Cardinality({j \in S : j <= i})

(***************************************************************************)
(* C21: split_policy returns exactly the paragraphs whose trimmed length   *)
(* is at least min_length, each trimmed, in their original order: shorter  *)
(* paragraphs are dropped and nothing else is added.                       *)
(***************************************************************************)
C21_SplitPolicyKeepsLongSections ==
    Called("split_policy") =>
        LET min_length == The(parsed).value.min_length
            sections == The(parsed).value.sections
            kept == LongEnough(min_length)
        IN  /\ Join(Paragraphs, ParagraphBreak) = text
            /\ \A i \in 1..Len(Paragraphs) : ~Contains(Paragraphs[i], ParagraphBreak)
            /\ Len(sections) = Cardinality(kept)
            /\ \A i \in kept : sections[RankIn(kept, i)] = Strip(Paragraphs[i])
            /\ \A j \in 1..Len(sections) :
                   /\ Len(sections[j]) >= min_length
                   /\ sections[j] = Strip(sections[j])

\* a paragraph of whitespace is dropped although its untrimmed length reaches
\* min_length, and the paragraph after it is returned trimmed
C21_Witness ==
    /\ Called("split_policy")
    /\ Len(Paragraphs) = 2
    /\ LET min_length == The(parsed).value.min_length
       IN  /\ min_length > 0
           /\ Len(Paragraphs[1]) >= min_length
           /\ Len(Strip(Paragraphs[1])) < min_length
           /\ LongEnough(min_length) = {2}
    /\ Paragraphs[2] # Strip(Paragraphs[2])
    /\ The(parsed).value.sections = <<Strip(Paragraphs[2])>>

(***************************************************************************)
(* Status and severity inference of the structured extraction, on section  *)
(* texts put together from fragments.                                      *)
(***************************************************************************)
VerdictFragments ==
    { <<"N", "o", "n", "-">>,
      <<"n", "o", "n", " ">>,
      <<"C", "o", "m", "p", "l", "i", "a", "n", "t", " ">>,
      <<"P", "A", "R", "T", "I", "A", "L", "l", "y", " ">>,
      <<"N", "o", "t", " ">>,
      <<"a", "p", "p", "l", "i", "c", "a", "b", "l", "e", " ">>,
      <<"N", "/", "A", " ">>,
      <<"C", "r", "i", "t", "i", "c", "a", "l", " ">>,
      <<"H", "I", "G", "H", " ">>,
      <<"m", "e", "d", "i", "u", "m", " ">>,
      <<"L", "o", "w", "\n">>,
      <<"f", "i", "n", "e", ".", "\n">> }

VerdictTexts == {Concat(ts) : ts \in SeqUpTo(VerdictFragments, MaxSectionTokens)}

\* a call of ResponseParser._extract_severity(section)
ExtractSectionSeverity ==
    /\ parsed = None
    /\ parsed' = Returned("_extract_severity", extract_severity(text))
    /\ UNCHANGED text
    /\ UNCHANGED notParserVars

InitVerdict ==
    /\ IdleExcept("parser")
    /\ text \in VerdictTexts
    /\ parsed = None

NextVerdict ==
    \/ ExtractStatus
    \/ ExtractSectionSeverity

SpecVerdict == InitVerdict /\ [][NextVerdict]_vars

(***************************************************************************)
(* C22: the structured extraction always infers a status and a severity.   *)
(* The status follows the priority non-compliant terms, 'partial',         *)
(* 'compliant', 'not applicable' / 'n/a', and is NON_COMPLIANT when no     *)
(* term is found; the severity follows the priority 'critical', 'high',    *)
(* 'medium', 'low', and is MEDIUM when no term is found.  A higher term    *)
(* wins over every lower one found in the same section.                    *)
(***************************************************************************)
C22_SectionPriorities ==
    /\ Called("_extract_status") =>
           LET v == The(parsed).value
               noncompliant == Has(KwNonHyphenCompliant) \/ Has(KwNonSpaceCompliant)
               notapplicable == Has(KwNotApplicable) \/ Has(KwNA)
           IN  /\ v \in ParserStatus
               /\ noncompliant => v = "NON_COMPLIANT"
               /\ (~noncompliant /\ Has(KwPartial)) => v = "PARTIAL"
               /\ (~noncompliant /\ ~Has(KwPartial) /\ Has(KwCompliant)) => v = "COMPLIANT"
               /\ (~noncompliant /\ ~Has(KwPartial) /\ ~Has(KwCompliant) /\ notapplicable)
                      => v = "NOT_APPLICABLE"
               /\ (~noncompliant /\ ~Has(KwPartial) /\ ~Has(KwCompliant) /\ ~notapplicable)
                      => v = "NON_COMPLIANT"
    /\ Called("_extract_severity") =>
           LET v == The(parsed).value
           IN  /\ v \in SeverityLevel
               /\ Has(KwCritical) => v = "CRITICAL"
               /\ (~Has(KwCritical) /\ Has(KwHigh)) => v = "HIGH"
               /\ (~Has(KwCritical) /\ ~Has(KwHigh) /\ Has(KwMedium)) => v = "MEDIUM"
               /\ (~Has(KwCritical) /\ ~Has(KwHigh) /\ ~Has(KwMedium) /\ Has(KwLow))
                      => v = "LOW"
               /\ (~Has(KwCritical) /\ ~Has(KwHigh) /\ ~Has(KwMedium) /\ ~Has(KwLow))
                      => v = "MEDIUM"

\* a section naming 'low', 'medium' and 'high' but not 'critical' is HIGH
C22_Witness ==
    /\ Called("_extract_severity")
    /\ Has(KwLow)
    /\ Has(KwMedium)
    /\ Has(KwHigh)
    /\ ~Has(KwCritical)
    /\ The(parsed).value = "HIGH"

\* the lines of the text
TextLines == SplitOn(text, <<"\n">>[1])

\* the positions of the header lines of the text
HeaderLines == {i \in 1..Len(TextLines) : is_finding_header(TextLines[i])}

\* the text from its first header line on (empty when it has no header line)
FromFirstHeader ==
    IF HeaderLines = {} THEN <<>>
    ELSE LET h == CHOOSE i \in HeaderLines : \A j \in HeaderLines : i <= j
         IN  Join(SubSeq(TextLines, h, Len(TextLines)), <<"\n">>)

\* the values a line at or after the first header line gives after its colon
ValuesAfterHeader ==
    {Strip(AfterFirstColon(TextLines[i])) :
        i \in {j \in 1..Len(TextLines) : \E h \in HeaderLines : h <= j}}

(***************************************************************************)
(* C23: the structured extraction discards every section without a        *)
(* control identifier: each finding has a non-empty control_id, there are  *)
(* at most as many findings as header-delimited sections, and the text     *)
(* before the first header line contributes to no finding.                 *)
(***************************************************************************)
C23_SectionsWithoutControlIdDiscarded ==
    Called("_extract_findings") =>
        LET fs == The(parsed).value
        IN  /\ \A i \in 1..Len(fs) : fs[i].control_id # <<>>
            /\ Len(fs) <= Cardinality(HeaderLines)
            /\ fs = FindingsOfSections(split_into_finding_sections(FromFirstHeader))
            /\ \A i \in 1..Len(fs) : fs[i].control_id \in ValuesAfterHeader

\* a line before the first header that would give an identifier under the
\* 'control:' alias is dropped, a headed section without an identifier is
\* discarded, and the one headed section with an identifier gives the only
\* finding
C23_Witness ==
    /\ Called("_extract_findings")
    /\ Cardinality(HeaderLines) = 2
    /\ 1 \notin HeaderLines
    /\ extract_field(TextLines[1], <<KwControlId, KwControlColon>>) # <<>>
    /\ Len(The(parsed).value) = 1
    /\ The(parsed).value[1].control_id = <<"A", "1">>

(***************************************************************************)
(* C24: for every input of the assessor the verdict is sufficient exactly  *)
(* when at least 2 documents are non-blank, and the confidence is LOW      *)
(* exactly when the verdict is not sufficient; the last step of the        *)
(* algorithm ('weak evidence') is never the one that answers.              *)
(***************************************************************************)
C24_SufficientIffTwoNonEmpty ==
    assessment # None =>
        /\ The(assessment).sufficient <=> Cardinality(DocsWithText(docs)) >= 2
        /\ The(assessment).confidence = "LOW" <=> ~The(assessment).sufficient
        /\ The(assessment).notes # "Weak evidence"

\* exactly two non-blank documents among three and well separated scores:
\* the moderate-evidence step answers MEDIUM, sufficient
C24_Witness ==
    /\ assessment # None
    /\ Len(docs) = 3
    /\ Cardinality(DocsWithText(docs)) = 2
    /\ ScoresSpreadOver15(scores)
    /\ The(assessment) = Assessment("MEDIUM", "Moderate evidence", TRUE)

\* a step of the ended analysis raised: a model call, the parsing of a content
\* that is no text, or the building of a prompt (the analysis ended before the
\* last model call of its method)
SomeStepRaised ==
    \/ \E i \in 1..Len(daCalls) : daCalls[i].answer.raised # "none"
    \/ daCalls = <<>>
    \/ daText = Some(None)
    \/ Len(daCalls) = 1 /\ daMethod = "analyze_with_self_correction"

(***************************************************************************)
(* C25: analyze and analyze_with_self_correction never raise: an analysis  *)
(* ends with a returned AnalysisResult, whatever failed on the way (prompt *)
(* building, a model call, parsing).  The result is successful exactly     *)
(* when it has a report and exactly when it has no error message; a failed *)
(* result has neither report nor raw response; the raw response of a       *)
(* successful result is the text its report was parsed from.               *)
(***************************************************************************)
C25_AlwaysAnAnalysisResult ==
    /\ daPc = "done" <=> daResult # None
    /\ daResult # None =>
           LET result == The(daResult)
           IN  /\ result.success <=> result.report # None
               /\ result.success <=> result.error_message = None
               /\ SomeStepRaised => ~result.success
               /\ ~result.success =>
                      /\ result.report = None
                      /\ result.raw_response = None
                      /\ result.error_message # None
               /\ result.success =>
                      /\ result.raw_response # None
                      /\ result.raw_response = The(daText)
                      /\ The(result.report).reasoning_trace = The(result.raw_response)
                      /\ The(result.report).findings
                             = extract_findings(The(result.raw_response))
                      /\ The(result.report).compliance_score
                             = extract_score(The(result.raw_response))

\* both model calls of a self-correcting analysis succeeded, the second one
\* returned no content: the parsing error is returned as a failed result
C25_Witness ==
    /\ daPc = "done"
    /\ daMethod = "analyze_with_self_correction"
    /\ Len(daCalls) = 2
    /\ daCalls[1].answer.raised = "none"
    /\ daCalls[2].answer.raised = "none"
    /\ daText = Some(None)
    /\ The(daResult) = Failed("AttributeError")

(***************************************************************************)
(* C26: an agent whose strategy is SELF_CORRECTION never completes an      *)
(* analysis: whichever method is called (analyze, analyze_with_self_       *)
(* correction, or analyze_with_strategy of the multi-strategy agent with   *)
(* SELF_CORRECTION), the initial prompt is refused for want of a previous  *)
(* analysis before any model call, so no model call is ever made and the   *)
(* result is a failure.                                                    *)
(***************************************************************************)
C26_SelfCorrectionAgentNeverCompletes ==
    daStrategy = "SELF_CORRECTION" =>
        /\ daCalls = <<>>
        /\ daText = None
        /\ daPc \in {"start", "done"}
        /\ daPc = "done" =>
               /\ ~The(daResult).success
               /\ The(daResult).report = None
               /\ The(daResult).error_message = Some("ValueError")

\* analyze_with_strategy with SELF_CORRECTION on a non-empty document ended
\* in a failure without a model call
C26_Witness ==
    /\ daStrategy = "SELF_CORRECTION"
    /\ daMethod = "analyze_with_strategy"
    /\ daDocument # <<>>
    /\ daPc = "done"
    /\ daCalls = <<>>
    /\ The(daResult) = Failed("ValueError")

\* the findings of the returned summary that have the status
WithStatus(status) ==
    {i \in 1..Len(The(summary).findings) : The(summary).findings[i] = status}

MaxMapEntries == 2

\* the members of ReasoningStrategy in definition order, as `for strategy in
\* ReasoningStrategy` visits them
StrategyOrder == <<"CHAIN_OF_THOUGHT", "REACT", "SELF_CORRECTION", "TREE_OF_THOUGHTS">>

\* ComplianceAgent.analyze as one call: the returned result and the model
\* calls made, for what the backend answers to a call
analyze(strategy, document_text, fw, answer) ==
    LET built_prompts == execute_analysis_prompts(document_text, fw, strategy)
    IN  IF built_prompts.raised # "none"
        THEN [result |-> Failed(built_prompts.raised), calls |-> <<>>]
        ELSE LET response == complete(answer)
                 call == ModelCall(The(built_prompts.value), answer)
             IN  IF response.raised # "none"
                 THEN [result |-> Failed(response.raised), calls |-> <<call>>]
                 ELSE [result |-> Parsed(The(response.value), fw, strategy),
                       calls |-> <<call>>]

\* self.agents[strategy].analyze(...)
analyze_with_strategy(document_text, fw, strategy, answer) ==
    analyze(strategy, document_text, fw, answer)

\* results[strategy] = result
Put(results, strategy, result) ==
    IF \E i \in 1..Len(results) : results[i].strategy = strategy
    THEN [i \in 1..Len(results) |->
             IF results[i].strategy = strategy
             THEN [strategy |-> strategy, result |-> result]
             ELSE results[i]]
    ELSE Append(results, [strategy |-> strategy, result |-> result])

\* mutant: no strategy is left out of the loop
EveryStrategyIncluded(strategy) == TRUE

\* `if strategy != ReasoningStrategy.SELF_CORRECTION`
IncludedInAll(strategy) == strategy # "SELF_CORRECTION"

\* `result.success and result.report` of an entry (a report object is truthy)
IsSuccessful(entry) == entry.result.success /\ entry.result.report # None

\* mutant: the key of max is compared the other way round
OutrankedBy(a, b) ==
    LET x == The(a.report).compliance_score
        y == The(b.report).compliance_score
    IN  x.num * y.den < y.num * x.den

\* the compliance_score of a's report is greater than that of b's
Outranks(a, b) ==
    LET x == The(a.report).compliance_score
        y == The(b.report).compliance_score
    IN  x.num * y.den > y.num * x.den

\* max(items, key=...): the first item is kept until a later one has a
\* strictly greater key
RECURSIVE MaxByScore(_, _)
MaxByScore(best, rest) ==
    IF rest = <<>> THEN best
    ELSE MaxByScore(IF Outranks(Head(rest).result, best.result) THEN Head(rest) ELSE best,
                    Tail(rest))

get_best_result(results) ==
    LET successful_results == SelectSeq(results, IsSuccessful)
    IN  IF successful_results = <<>>
        THEN IF results = <<>>
             THEN Raise("IndexError")
             ELSE Return(<<results[1].strategy, results[1].result>>)
        ELSE LET best == MaxByScore(Head(successful_results), Tail(successful_results))
             IN  Return(<<best.strategy, best.result>>)

\* one iteration of the loop of analyze_with_all_strategies
MultiAnalyzeNext ==
    /\ msPc = "loop"
    /\ msIndex <= Len(StrategyOrder)
    /\ LET strategy == StrategyOrder[msIndex]
       IN  IF IncludedInAll(strategy)
           THEN \E answer \in ModelAnswers :
                    \E outcome \in {analyze_with_strategy(msDocument, msFramework,
                                                          strategy, answer)} :
                        /\ msResults' = Put(msResults, strategy, outcome.result)
                        /\ msCalls' = msCalls \o
                               [i \in 1..Len(outcome.calls) |->
                                   [strategy |-> strategy,
                                    answer |-> outcome.calls[i].answer]]
           ELSE UNCHANGED <<msResults, msCalls>>
    /\ msIndex' = msIndex + 1
    /\ UNCHANGED <<msPc, msDocument, msFramework, msBest>>
    /\ UNCHANGED notMultiVars

\* the loop is over: analyze_with_all_strategies returns the results
MultiAnalyzeAllReturn ==
    /\ msPc = "loop"
    /\ msIndex > Len(StrategyOrder)
    /\ msPc' = "done"
    /\ UNCHANGED <<msIndex, msDocument, msFramework, msResults, msCalls, msBest>>
    /\ UNCHANGED notMultiVars

\* a call of get_best_result, on the returned results or on a given map
MultiGetBestResult ==
    /\ msPc \in {"done", "given"}
    /\ msBest = None
    /\ msBest' = Some(get_best_result(msResults))
    /\ UNCHANGED <<msPc, msIndex, msDocument, msFramework, msResults, msCalls>>
    /\ UNCHANGED notMultiVars

\* what the results of a given map were made of: a failed call, the empty
\* text (score 0), and two reports (scores 90 and 40)
GivenAnswers ==
    {answer \in ModelAnswers :
        \/ answer = Raise("RateLimitError")
        \/ answer.raised = "none" /\ The(answer.value) # None
                                  /\ ~Contains(The(The(answer.value)), <<"c", "a", "n">>)}

\* the result an analysis gives for an answer of the backend
ResultOf(strategy, fw, answer) ==
    IF answer.raised # "none" THEN Failed(answer.raised)
    ELSE Parsed(The(answer.value), fw, strategy)

\* the entries a given map can hold
GivenEntries(fw) ==
    {[strategy |-> strategy, result |-> ResultOf(strategy, fw, answer)] :
        strategy \in ReasoningStrategy, answer \in GivenAnswers}

\* result maps with distinct keys, in every insertion order
ResultMaps(fw) ==
    {m \in SeqUpTo(GivenEntries(fw), MaxMapEntries) :
        \A i \in 1..Len(m) : \A j \in 1..Len(m) : i # j => m[i].strategy # m[j].strategy}

InitMulti ==
    /\ IdleExcept("multi")
    /\ msFramework \in Framework
    /\ msCalls = <<>>
    /\ msBest = None
    /\ \/ /\ msPc = "loop"
          /\ msIndex = 1
          /\ msDocument \in DocumentInputs
          /\ msResults = <<>>
       \/ /\ msPc = "given"
          /\ msIndex = 0
          /\ msDocument = <<>>
          /\ msResults \in ResultMaps(msFramework)

NextMulti ==
    \/ MultiAnalyzeNext
    \/ MultiAnalyzeAllReturn
    \/ MultiGetBestResult

SpecMulti == InitMulti /\ [][NextMulti]_vars

\* the entries of the map whose result is marked successful
Successes == {i \in 1..Len(msResults) : msResults[i].result.success}

\* the compliance score of the report of a successful result
ScoreOf(result) == The(result.report).compliance_score

\* score a is at most score b
AtMost(a, b) == a.num * b.den <= b.num * a.den

(***************************************************************************)
(* C28: get_best_result on a non-empty result map returns an entry of the  *)
(* map.  When some result is successful, the returned result is successful *)
(* and no successful result has a greater compliance_score; the first      *)
(* entry is returned as a fallback only when no result is successful, so a *)
(* failed result is never preferred over a successful one.                 *)
(***************************************************************************)
C28_BestResultIsBestSuccess ==
    (msBest # None /\ msResults # <<>>) =>
        /\ The(msBest).raised = "none"
        /\ LET best == The(The(msBest).value)
           IN  /\ \E i \in 1..Len(msResults) :
                      /\ msResults[i].strategy = best[1]
                      /\ msResults[i].result = best[2]
               /\ Successes # {} =>
                      /\ best[2].success
                      /\ \A i \in Successes :
                             AtMost(ScoreOf(msResults[i].result), ScoreOf(best[2]))
               /\ Successes = {} =>
                      /\ best[1] = msResults[1].strategy
                      /\ best[2] = msResults[1].result
               /\ ~best[2].success => Successes = {}

\* the first entry of the map failed and the second one scored higher than
\* nothing else did: the second entry is returned
C28_Witness ==
    /\ msPc = "given"
    /\ msBest # None
    /\ Len(msResults) = 2
    /\ ~msResults[1].result.success
    /\ msResults[2].result.success
    /\ ScoreOf(msResults[2].result) = Whole(40)
    /\ The(The(msBest).value) = <<msResults[2].strategy, msResults[2].result>>

\* the strategies that have a result
Keys == {msResults[i].strategy : i \in 1..Len(msResults)}

\* the model calls made for a strategy
CallsFor(strategy) == {i \in 1..Len(msCalls) : msCalls[i].strategy = strategy}

(***************************************************************************)
(* C29: analyze_with_all_strategies returns a result for CHAIN_OF_THOUGHT, *)
(* REACT and TREE_OF_THOUGHTS and for nothing else, makes at most one      *)
(* model call for each of them and none for SELF_CORRECTION, and runs the  *)
(* remaining strategies whatever failed before.                            *)
(***************************************************************************)
C29_AllStrategiesButSelfCorrection ==
    /\ msPc = "done" =>
           /\ Keys = ReasoningStrategy \ {"SELF_CORRECTION"}
           /\ Keys = {"CHAIN_OF_THOUGHT", "REACT", "TREE_OF_THOUGHTS"}
           /\ Len(msResults) = 3
    /\ msPc \in {"loop", "done"} =>
           /\ \A strategy \in ReasoningStrategy : Cardinality(CallsFor(strategy)) <= 1
           /\ CallsFor("SELF_CORRECTION") = {}
           /\ \A i \in 1..Len(StrategyOrder) :
                  (i < msIndex /\ StrategyOrder[i] # "SELF_CORRECTION")
                      => StrategyOrder[i] \in Keys

\* the first two analyses failed (a failed model call, a content that is no
\* text) and the third one was run all the same and succeeded
C29_Witness ==
    /\ msPc = "done"
    /\ Len(msResults) = 3
    /\ msResults[1].result = Failed("APITimeoutError")
    /\ msResults[2].result = Failed("AttributeError")
    /\ msResults[3].strategy = "TREE_OF_THOUGHTS"
    /\ msResults[3].result.success
    /\ Len(msCalls) = 3

(***************************************************************************)
(* config.settings: the Settings singleton and get_settings                *)
(***************************************************************************)
\* the largest number of get_settings() / Settings() calls of a run
MaxSettingsCalls == 4

\* how a call is made
SettingsCallers == {"get_settings", "Settings"}

\* what a run of the loading steps of __init__ can meet: no failure, or the
\* ValueError of _load_gemini_config (API key not configured, malformed
\* number) or of _load_app_config (malformed number)
LoadFailures == {"none", "_load_gemini_config", "_load_app_config"}

\* mutant: _initialized is set before the loading steps
InitializedBeforeLoading(failure) == TRUE

\* `self._initialized = True` is reached only when no loading step raised
InitializedAfterLoading(failure) == failure = "none"

\* Settings(): __new__ then __init__
SettingsCall(caller) ==
    /\ Len(stReturned) < MaxSettingsCalls
    /\ LET fresh == stInstance = None
           instance == IF fresh THEN stCreated + 1 ELSE The(stInstance)
           initialized == IF fresh THEN FALSE ELSE stInitialized
       IN  /\ stInstance' = Some(instance)
           /\ stCreated' = IF fresh THEN stCreated + 1 ELSE stCreated
           /\ IF initialized
              THEN /\ stReturned' = Append(stReturned,
                                           [caller |-> caller, outcome |-> Return(instance)])
                   /\ UNCHANGED <<stInitialized, stGemini, stApp, stAttempts, stLoads>>
              ELSE \E failure \in LoadFailures :
                       /\ stAttempts' = stAttempts + 1
                       /\ stGemini' = IF failure = "_load_gemini_config"
                                      THEN stGemini ELSE Some(stAttempts + 1)
                       /\ stApp' = IF failure = "none"
                                   THEN Some(stAttempts + 1) ELSE stApp
                       /\ stInitialized' = InitializedAfterLoading(failure)
                       /\ stLoads' = IF failure = "none" THEN stLoads + 1 ELSE stLoads
                       /\ stReturned' = Append(stReturned,
                              [caller |-> caller,
                               outcome |-> IF failure = "none"
                                           THEN Return(instance)
                                           ELSE Raise("ValueError")])
    /\ UNCHANGED notSettingsVars

\* a call of get_settings()
GetSettings == SettingsCall("get_settings")

\* a call of Settings()
ConstructSettings == SettingsCall("Settings")

InitSettings ==
    /\ IdleExcept("settings")
    /\ SettingsIdle

NextSettings ==
    \/ GetSettings
    \/ ConstructSettings

SpecSettings == InitSettings /\ [][NextSettings]_vars

\* the calls that returned
ReturnedCalls == {i \in 1..Len(stReturned) : stReturned[i].outcome.raised = "none"}

\* one object serves every call, and a call returns it only fully loaded
SingleLoadedInstance ==
    /\ stCreated <= 1
    /\ \A i \in ReturnedCalls : stReturned[i].outcome.value = stInstance
    /\ stLoads <= 1
    /\ stInitialized <=> stLoads = 1
    /\ stInitialized => (stGemini # None /\ stApp = stGemini)
    /\ ReturnedCalls # {} => stInitialized
    /\ (stReturned # <<>> /\ stReturned[Len(stReturned)].outcome.raised # "none")
           => ~stInitialized

\* a call on an uninitialised instance runs the loading steps, a call on an
\* initialised one does not
LoadsWhenUninitialised ==
    Len(stReturned') = Len(stReturned) + 1 =>
        /\ ~stInitialized => stAttempts' = stAttempts + 1
        /\ stInitialized =>
               /\ stAttempts' = stAttempts
               /\ stLoads' = stLoads
               /\ stGemini' = stGemini
               /\ stApp' = stApp
               /\ stReturned'[Len(stReturned')].outcome = Return(The(stInstance))

(***************************************************************************)
(* C30: over any sequence of get_settings() and Settings() calls, every    *)
(* call that returns gives the same single instance and the configuration  *)
(* is loaded successfully at most once; when loading raises, the instance  *)
(* stays uninitialised and the next call runs the loading again, so that a *)
(* half-loaded configuration is never returned as initialised.             *)
(***************************************************************************)
C30_SettingsSingleton ==
    /\ []SingleLoadedInstance
    /\ [][LoadsWhenUninitialised]_vars

\* loading raised in the first call; the second call loaded everything again
\* and the third returned the same object without loading
C30_Witness ==
    /\ Len(stReturned) = 3
    /\ stReturned[1].outcome.raised = "ValueError"
    /\ stReturned[2] = [caller |-> "get_settings", outcome |-> Return(1)]
    /\ stReturned[3] = [caller |-> "Settings", outcome |-> Return(1)]
    /\ stAttempts = 2
    /\ stLoads = 1
    /\ stGemini = Some(2)
    /\ stApp = Some(2)

====
